---- MODULE Spec2Model ----
(***************************************************************************)
(* Model of the DirectX12 renderer of FromVulkanToDirectX12                *)
(* (src/unnamed/part_000): resource upload through cmdLists[0], the frame  *)
(* loop with its per-image fence values, the teardown, and the mip chain   *)
(* computation of GenerateMipMaps.                                         *)
(*                                                                         *)
(* The CPU is the single thread of main(), followed by its position pc.    *)
(* The GPU is the graphics queue: a FIFO of command-list executions,       *)
(* presents and fence signals, consumed one entry at a time by GPUStep.    *)
(***************************************************************************)
EXTENDS Integers, Sequences, FiniteSets, TLC

\* constexpr uint32_t bufferingCount = 3;
bufferingCount == 3

\* Number of SubmitBufferToGPU / SubmitTextureToGPU calls made by main().
NumUploads == 11

\* Frames the model lets the loop run before the window must close.
MaxFrames == 5

\* Largest image width and height drawn for GenerateMipMaps.
MaxExtent == 9

\* Largest channel count drawn for GenerateMipMaps.
MaxChannels == 4

Slots == 0 .. (bufferingCount - 1)

\* A value stored in a uint32_t (deviceFenceValue, swapchainFenceValues,
\* _outTotalSize, SA::Vec2ui components).  uint32_t arithmetic is exact below
\* 2^32; the frame, upload and extent bounds of this module keep every value
\* stored far below it, so the stored value is the value computed.
U32(n) == n

Max(S) == CHOOSE m \in S : \A n \in S : n <= m

VARIABLES
    pc,                     \* position of main()
    uploadNo,               \* index of the Submit*ToGPU call in progress (1..NumUploads)
    stagingBuffer,          \* number of live staging buffers (local MComPtr of Submit*ToGPU)
    wdiCaller,              \* who called WaitDeviceIdle: "upload" or "uninit"
    deviceFence,            \* completed value of deviceFence
    deviceFenceValue,       \* uint32_t deviceFenceValue
    swapchainFence,         \* completed value of swapchainFence
    swapchainFenceValues,   \* std::array<uint32_t, bufferingCount>
    swapchainFrameIndex,    \* uint32_t swapchainFrameIndex
    prevFenceValue,         \* local of Swapchain Begin
    currFenceValue,         \* local of Swapchain Begin
    cmdListState,           \* per command list: "closed" or "recording"
    graphicsQueue,          \* work submitted to the GPU and not yet processed
    frameNo,                \* number of frames begun
    calls,                  \* history of the frame loop's calls
    released,               \* TRUE once Uninitialization released the objects
    upArgs,                 \* arguments of the Submit*ToGPU call in progress
    targetState,            \* per upload target: resource state it was created in or
                            \* last transitioned to by a recorded barrier ("none": not created)
    upLog                   \* history of the Submit*ToGPU calls

VARIABLES
    mipPc,                  \* position inside GenerateMipMaps
    inExtent,               \* the _extent argument as passed by the caller
    extent,                 \* _extent, halved by the loop
    channelNum,             \* _channelNum
    layerNum,               \* _layerNum
    outMipLevels,           \* _outMipLevels
    outTotalSize,           \* _outTotalSize
    outExtents,             \* _outExtents
    mipI,                   \* loop counter i
    srcOffset,              \* GenerateMipMaps: src, as a byte offset into _data
    genOffsets,             \* byte offset of _data at which each level was written
    genFailed,              \* TRUE once stbir_resize_uint8_linear returned false
    offset,                 \* SubmitTextureToGPU: UINT64 offset
    copyOffsets             \* PlacedFootprint.Offset of each recorded CopyTextureRegion

VARIABLES
    exMain,                 \* which of the three main() functions runs ("none": not modelled)
    exCode,                 \* exit status of the process (-1: still running)
    exTrace                 \* the fallible steps of main() run so far, with their outcome

exitVars == <<exMain, exCode, exTrace>>

VARIABLES
    imageState              \* per swapchain image: D3D12_RESOURCE_STATES value it is in

imgVars == <<imageState>>

VARIABLES
    vkPc,                   \* position in the Device section of the Vulkan main()
    vkDeviceCount,          \* deviceCount
    vkDevIdx,               \* position of currPhysicalDevice in physicalDevices (from 1)
    vkDev,                  \* what the driver reports for currPhysicalDevice
    vkFamIdx,               \* loop counter i over the queue families
    vkCurr,                 \* currPhysicalDeviceQueueFamilies
    vkPhysicalDevice,       \* physicalDevice (0: VK_NULL_HANDLE)
    vkIndices,              \* deviceQueueFamilyIndices
    vkQueueCreate,          \* queueFamilyIndex of each entry passed to vkCreateDevice
    vkDevice,               \* TRUE once the logical device exists
    vkSkippedQualified,     \* TRUE once the loop skipped a device that qualifies
    vkExit,                 \* exit status (-1: running)
    swapFormats,            \* formats
    swapFormat,             \* swapchainFormat
    swapModes,              \* presentModes
    swapMode                \* swapchainPresentMode

vkVars == <<vkPc, vkDeviceCount, vkDevIdx, vkDev, vkFamIdx, vkCurr, vkPhysicalDevice,
            vkIndices, vkQueueCreate, vkDevice, vkSkippedQualified, vkExit,
            swapFormats, swapFormat, swapModes, swapMode>>

dxVars == <<pc, uploadNo, stagingBuffer, wdiCaller, deviceFence, deviceFenceValue,
            swapchainFence, swapchainFenceValues, swapchainFrameIndex,
            prevFenceValue, currFenceValue, cmdListState, graphicsQueue,
            frameNo, calls, released, upArgs, targetState, upLog>>

upVars == <<upArgs, targetState, upLog>>

texVars == <<srcOffset, genOffsets, genFailed, offset, copyOffsets>>

mipVars == <<mipPc, inExtent, extent, channelNum, layerNum, outMipLevels,
             outTotalSize, outExtents, mipI, texVars>>

VARIABLES
    ldPc,                   \* position in the loading of the current texture
    ldTex,                  \* which of the four textures is loaded (1 .. 4), 0: none
    ldImg                   \* what stbi_load returned and what was derived from it

loadVars == <<ldPc, ldTex, ldImg>>

VARIABLES
    tdMain,                 \* which program's objects: "VK", "DX" or "none"
    tdPc,                   \* "create", "destroy", "done" or "idle"
    tdCreated,              \* objects in the order they were created
    tdDestroyed             \* objects in the order they were destroyed

tdVars == <<tdMain, tdPc, tdCreated, tdDestroyed>>

vars == <<dxVars, mipVars, exitVars, imgVars, vkVars, loadVars, tdVars>>

fenceVars == <<deviceFence, deviceFenceValue, swapchainFence, swapchainFenceValues,
               swapchainFrameIndex, prevFenceValue, currFenceValue>>

-----------------------------------------------------------------------------
(* Entries of the graphics queue and of the call history. *)

\* camera: index of the camera buffer the command list binds (-1: none).
QExec(slot, frame, upload, camera) ==
    [op |-> "exec", slot |-> slot, frame |-> frame, upload |-> upload,
     camera |-> camera, fence |-> "none", value |-> 0]

QPresent(slot, frame) ==
    [op |-> "present", slot |-> slot, frame |-> frame, upload |-> 0,
     camera |-> -1, fence |-> "none", value |-> 0]

QSignal(fence, value) ==
    [op |-> "signal", slot |-> 0, frame |-> 0, upload |-> 0,
     camera |-> -1, fence |-> fence, value |-> value]

Call(op, frame, slot, value) ==
    [op |-> op, frame |-> frame, slot |-> slot, value |-> value]

\* Command lists of slot `slot` submitted and not yet executed by the GPU.
InFlight(slot) ==
    {p \in DOMAIN graphicsQueue :
        graphicsQueue[p].op = "exec" /\ graphicsQueue[p].slot = slot}

-----------------------------------------------------------------------------
(* State after the Commands section of Initialization: device, queue,      *)
(* fences (created with value 0), swapchain, and every command list        *)
(* created and closed.                                                     *)

\* Values of the D3D12_RESOURCE_STATES enumeration (d3d12.h) the frame uses:
\* COMMON and PRESENT are two names of the value 0.
D3D12_RESOURCE_STATE_COMMON == 0

D3D12_RESOURCE_STATE_PRESENT == 0

D3D12_RESOURCE_STATE_RENDER_TARGET == 4

NoArgs == [target |-> 0, kind |-> "none", size |-> 0, data |-> "none", stateAfter |-> "none"]

InitDX ==
    /\ pc = "resources"
    /\ uploadNo = 0
    /\ stagingBuffer = 0
    /\ wdiCaller = "none"
    /\ deviceFence = 0
    /\ deviceFenceValue = 0
    /\ swapchainFence = 0
    /\ swapchainFenceValues = [i \in Slots |-> 0]
    /\ swapchainFrameIndex = 0
    /\ prevFenceValue = 0
    /\ currFenceValue = 0
    /\ cmdListState = [i \in Slots |-> "closed"]
    /\ graphicsQueue = <<>>
    /\ frameNo = 0
    /\ calls = <<>>
    /\ released = FALSE
    /\ upArgs = NoArgs
    /\ targetState = [t \in 1 .. NumUploads |-> "none"]
    /\ upLog = <<>>
    /\ imageState = [i \in Slots |-> D3D12_RESOURCE_STATE_COMMON]

MipIdle ==
    /\ mipPc = "idle"
    /\ inExtent = <<1, 1>>
    /\ extent = <<1, 1>>
    /\ channelNum = 1
    /\ layerNum = 1
    /\ outMipLevels = 0
    /\ outTotalSize = 0
    /\ outExtents = <<>>
    /\ mipI = 0
    /\ srcOffset = 0
    /\ genOffsets = <<>>
    /\ genFailed = FALSE
    /\ offset = 0
    /\ copyOffsets = <<>>

ExitIdle ==
    /\ exMain = "none"
    /\ exCode = -1
    /\ exTrace = <<>>

\* uint32_t(-1)
NoFamily == -1

NoDevice == [exts |-> FALSE, families |-> <<>>]

NoIndices == [graphicsFamily |-> NoFamily, presentFamily |-> NoFamily]

VkIdle ==
    /\ vkPc = "idle"
    /\ vkDeviceCount = 0
    /\ vkDevIdx = 0
    /\ vkDev = NoDevice
    /\ vkFamIdx = 0
    /\ vkCurr = NoIndices
    /\ vkPhysicalDevice = 0
    /\ vkIndices = NoIndices
    /\ vkQueueCreate = <<>>
    /\ vkDevice = FALSE
    /\ vkSkippedQualified = FALSE
    /\ vkExit = -1
    /\ swapFormats = <<>>
    /\ swapFormat = "none"
    /\ swapModes = <<>>
    /\ swapMode = "none"

NoImage == [width |-> 0, height |-> 0, fileChannels |-> 0, channels |-> 0,
            decodedSize |-> 0, dataSize |-> 0, rowPitch |-> 0]

LoadIdle ==
    /\ ldPc = "idle"
    /\ ldTex = 0
    /\ ldImg = NoImage

TdIdle ==
    /\ tdMain = "none"
    /\ tdPc = "idle"
    /\ tdCreated = <<>>
    /\ tdDestroyed = <<>>

Init == InitDX /\ MipIdle /\ ExitIdle /\ VkIdle /\ LoadIdle /\ TdIdle

-----------------------------------------------------------------------------
(* The GPU: processes the head of the graphics queue.  A Signal entry sets *)
(* its fence to the signalled value.                                       *)

GPUStep ==
    /\ graphicsQueue # <<>>
    /\ LET h == Head(graphicsQueue) IN
        /\ deviceFence' =
              IF h.op = "signal" /\ h.fence = "device" THEN h.value ELSE deviceFence
        /\ swapchainFence' =
              IF h.op = "signal" /\ h.fence = "swapchain" THEN h.value ELSE swapchainFence
    /\ graphicsQueue' = Tail(graphicsQueue)
    /\ UNCHANGED <<pc, uploadNo, stagingBuffer, wdiCaller, deviceFenceValue,
                   swapchainFenceValues, swapchainFrameIndex, prevFenceValue,
                   currFenceValue, cmdListState, frameNo, calls, released>>
    /\ UNCHANGED upVars
    /\ UNCHANGED mipVars
    /\ UNCHANGED exitVars
    /\ UNCHANGED vkVars
    /\ UNCHANGED <<loadVars, tdVars>>
    /\ UNCHANGED imgVars

-----------------------------------------------------------------------------
(* WaitDeviceIdle.  SetEventOnCompletion sets the event as soon as the     *)
(* fence's completed value is at least the requested value, which is also  *)
(* the case when it already is at the time of the call.                    *)

\* Variant: the wait returns without looking at the fence.
FenceReached_Always(completed, value) == TRUE

FenceReached(completed, value) == completed >= value

WaitDeviceIdleSignal ==
    /\ pc = "wdi_signal"
    /\ graphicsQueue' = Append(graphicsQueue, QSignal("device", deviceFenceValue))
    /\ pc' = "wdi_wait"
    /\ UNCHANGED <<uploadNo, stagingBuffer, wdiCaller, cmdListState, frameNo,
                   calls, released>>
    /\ UNCHANGED fenceVars
    /\ UNCHANGED upVars
    /\ UNCHANGED mipVars
    /\ UNCHANGED exitVars
    /\ UNCHANGED vkVars
    /\ UNCHANGED <<loadVars, tdVars>>
    /\ UNCHANGED imgVars

WaitDeviceIdleWait ==
    /\ pc = "wdi_wait"
    /\ FenceReached(deviceFence, deviceFenceValue)
    /\ deviceFenceValue' = U32(deviceFenceValue + 1)
    /\ pc' = IF wdiCaller = "upload" THEN "upload_reset" ELSE "release"
    /\ UNCHANGED <<uploadNo, stagingBuffer, wdiCaller, deviceFence, swapchainFence,
                   swapchainFenceValues, swapchainFrameIndex, prevFenceValue,
                   currFenceValue, cmdListState, graphicsQueue, frameNo, calls,
                   released>>
    /\ UNCHANGED upVars
    /\ UNCHANGED mipVars
    /\ UNCHANGED exitVars
    /\ UNCHANGED vkVars
    /\ UNCHANGED <<loadVars, tdVars>>
    /\ UNCHANGED imgVars

-----------------------------------------------------------------------------
(* Resources section of main(): cmdLists[0] is reset, every resource is    *)
(* uploaded by SubmitBufferToGPU / SubmitTextureToGPU, cmdLists[0] is      *)
(* closed.  Both helpers have the same command and synchronization steps.  *)

ResourcesReset ==
    /\ pc = "resources"
    /\ cmdListState' = [cmdListState EXCEPT ![0] = "recording"]
    /\ uploadNo' = 1
    /\ pc' = "upload_call"
    /\ UNCHANGED <<stagingBuffer, wdiCaller, graphicsQueue, frameNo, calls, released>>
    /\ UNCHANGED fenceVars
    /\ UNCHANGED upVars
    /\ UNCHANGED mipVars
    /\ UNCHANGED exitVars
    /\ UNCHANGED vkVars
    /\ UNCHANGED <<loadVars, tdVars>>
    /\ UNCHANGED imgVars

\* The four textures are uploads 6..9 of main(), the others are buffers.
UploadKind(n) == IF n \in 6 .. 9 THEN "texture" ELSE "buffer"

\* The _stateAfter argument main() passes for its n-th upload.
UploadStateAfter(n) ==
    IF n \in 6 .. 9 THEN "PIXEL_SHADER_RESOURCE"
    ELSE IF n = 5 THEN "INDEX_BUFFER"
    ELSE "VERTEX_AND_CONSTANT_BUFFER"

\* Initial state main() passes to CreateCommittedResource for an upload target.
CreatedState_AllCopyDest(kind) == "COPY_DEST"

CreatedState(kind) == IF kind = "texture" THEN "COPY_DEST" ELSE "COMMON"

\* .StateBefore of the transition barrier of both helpers.
BarrierStateBefore == "COPY_DEST"

\* "garbage": what memcpy left in the staging buffer after reading a null source.
UpEntry(op, no, args, staged, state, contents, result, list, staging) ==
    [op |-> op, no |-> no, target |-> args.target, kind |-> args.kind,
     size |-> args.size, data |-> args.data, stateAfter |-> args.stateAfter,
     staged |-> staged, state |-> state, contents |-> contents, result |-> result,
     list |-> list, staging |-> staging]

\* Contents of a target in GPU memory: the staged bytes of the last copy to it
\* that the GPU has executed.
Contents(t) ==
    LET done == {p \in DOMAIN upLog :
                    /\ upLog[p].op = "submit"
                    /\ upLog[p].target = t
                    /\ \A q \in DOMAIN graphicsQueue :
                          ~(graphicsQueue[q].op = "exec"
                            /\ graphicsQueue[q].upload = upLog[p].no)}
    IN IF done = {} THEN "unwritten" ELSE upLog[Max(done)].staged

\* Entry of Submit*ToGPU with the given arguments.
CallUpload(no, args) ==
    /\ upArgs' = args
    /\ upLog' = Append(upLog, UpEntry("call", no, args, "none", targetState'[args.target],
                                      Contents(args.target), "none",
                                      cmdListState[0], stagingBuffer))
    /\ pc' = "upload_create"

\* main(): CreateCommittedResource of the n-th target (EXIT_FAILURE when it
\* fails), then the call of Submit*ToGPU with the target, its size and data.
ResourcesCreateTarget ==
    /\ pc = "upload_call"
    /\ \E created \in BOOLEAN :
        IF created
        THEN /\ targetState' = [targetState EXCEPT
                                  ![uploadNo] = CreatedState(UploadKind(uploadNo))]
             /\ CallUpload(uploadNo,
                    [target |-> uploadNo, kind |-> UploadKind(uploadNo), size |-> 1,
                     data |-> "a", stateAfter |-> UploadStateAfter(uploadNo)])
        ELSE /\ pc' = "exit_failure"
             /\ UNCHANGED upVars
    /\ UNCHANGED <<uploadNo, stagingBuffer, wdiCaller, cmdListState, graphicsQueue,
                   frameNo, calls, released>>
    /\ UNCHANGED fenceVars
    /\ UNCHANGED mipVars
    /\ UNCHANGED exitVars
    /\ UNCHANGED vkVars
    /\ UNCHANGED <<loadVars, tdVars>>
    /\ UNCHANGED imgVars

\* Outcomes of CreateCommittedResource for a staging buffer of Width = _size:
\* a buffer of width 0 is rejected, any other creation may succeed or fail.
StagingCreated(size) == IF size = 0 THEN {FALSE} ELSE BOOLEAN

\* CreateCommittedResource of the staging buffer; on failure the helper
\* returns false.  Neither _size nor _data is looked at before.
UploadCreateStaging ==
    /\ pc = "upload_create"
    /\ \E created \in StagingCreated(upArgs.size) :
        IF created
        THEN /\ stagingBuffer' = stagingBuffer + 1
             /\ pc' = "upload_record"
             /\ upLog' = upLog
        ELSE /\ stagingBuffer' = stagingBuffer
             /\ pc' = "upload_failed"
             /\ upLog' = Append(upLog,
                    UpEntry("return", uploadNo, upArgs, "none",
                            targetState[upArgs.target], Contents(upArgs.target),
                            "false", cmdListState[0], stagingBuffer))
    /\ UNCHANGED <<uploadNo, wdiCaller, cmdListState, graphicsQueue, frameNo,
                   calls, released, upArgs, targetState>>
    /\ UNCHANGED fenceVars
    /\ UNCHANGED mipVars
    /\ UNCHANGED exitVars
    /\ UNCHANGED vkVars
    /\ UNCHANGED <<loadVars, tdVars>>
    /\ UNCHANGED imgVars

\* std::memcpy(data, _data, _size): reading _size > 0 bytes from a null pointer
\* is undefined; the build may crash there or go on with whatever it read.
MemcpyOutcomes(size, data) ==
    IF data = "null" /\ size > 0 THEN {"crash", "garbage"} ELSE {data}

\* Map/memcpy/Unmap, the copy command(s), the transition barrier, Close.
UploadRecord ==
    /\ pc = "upload_record"
    /\ \E staged \in MemcpyOutcomes(upArgs.size, upArgs.data) :
        IF staged = "crash"
        THEN /\ pc' = "crashed"
             /\ UNCHANGED <<cmdListState, targetState, upLog>>
        ELSE /\ cmdListState' = [cmdListState EXCEPT ![0] = "closed"]
             /\ targetState' = [targetState EXCEPT ![upArgs.target] = upArgs.stateAfter]
             /\ upLog' = upLog \o
                  << UpEntry("copy", uploadNo, upArgs, staged, targetState[upArgs.target],
                             Contents(upArgs.target), "none", cmdListState[0], stagingBuffer),
                     UpEntry("barrier", uploadNo, upArgs, staged, BarrierStateBefore,
                             Contents(upArgs.target), "none", cmdListState[0], stagingBuffer) >>
             /\ pc' = "upload_execute"
    /\ UNCHANGED <<uploadNo, stagingBuffer, wdiCaller, graphicsQueue, frameNo,
                   calls, released, upArgs>>
    /\ UNCHANGED fenceVars
    /\ UNCHANGED mipVars
    /\ UNCHANGED exitVars
    /\ UNCHANGED vkVars
    /\ UNCHANGED <<loadVars, tdVars>>
    /\ UNCHANGED imgVars

\* ExecuteCommandLists, then the call of WaitDeviceIdle.
UploadExecute ==
    /\ pc = "upload_execute"
    /\ graphicsQueue' = Append(graphicsQueue, QExec(0, 0, uploadNo, -1))
    /\ upLog' = Append(upLog,
          UpEntry("submit", uploadNo, upArgs, upLog[Len(upLog)].staged,
                  targetState[upArgs.target], Contents(upArgs.target), "none",
                  cmdListState[0], stagingBuffer))
    /\ wdiCaller' = "upload"
    /\ pc' = "wdi_signal"
    /\ UNCHANGED <<uploadNo, stagingBuffer, cmdListState, frameNo, calls, released,
                   upArgs, targetState>>
    /\ UNCHANGED fenceVars
    /\ UNCHANGED mipVars
    /\ UNCHANGED exitVars
    /\ UNCHANGED vkVars
    /\ UNCHANGED <<loadVars, tdVars>>
    /\ UNCHANGED imgVars

\* cmdAllocs[0]->Reset(), cmdLists[0]->Reset(), return true: the local
\* stagingBuffer goes out of scope and is released.
\* Variant: the staging buffer outlives the call.
StagingAfterReturn_Kept(alive) == alive

\* The local MComPtr stagingBuffer releases its buffer at the end of the helper.
StagingAfterReturn(alive) == alive - 1

UploadReset ==
    /\ pc = "upload_reset"
    /\ cmdListState' = [cmdListState EXCEPT ![0] = "recording"]
    /\ stagingBuffer' = StagingAfterReturn(stagingBuffer)
    /\ upLog' = Append(upLog,
          UpEntry("return", uploadNo, upArgs, upLog[Len(upLog)].staged,
                  targetState[upArgs.target], Contents(upArgs.target), "true",
                  "recording", StagingAfterReturn(stagingBuffer)))
    /\ pc' = "upload_return"
    /\ UNCHANGED <<uploadNo, wdiCaller, graphicsQueue, frameNo, calls, released,
                   upArgs, targetState>>
    /\ UNCHANGED fenceVars
    /\ UNCHANGED mipVars
    /\ UNCHANGED exitVars
    /\ UNCHANGED vkVars
    /\ UNCHANGED <<loadVars, tdVars>>
    /\ UNCHANGED imgVars

\* main() after a successful upload: the next resource, or the end of Resources.
ResourcesAfterUpload ==
    /\ pc = "upload_return"
    /\ IF uploadNo < NumUploads
       THEN /\ uploadNo' = uploadNo + 1
            /\ pc' = "upload_call"
       ELSE /\ uploadNo' = uploadNo
            /\ pc' = "resources_close"
    /\ UNCHANGED <<stagingBuffer, wdiCaller, cmdListState, graphicsQueue, frameNo,
                   calls, released>>
    /\ UNCHANGED fenceVars
    /\ UNCHANGED upVars
    /\ UNCHANGED mipVars
    /\ UNCHANGED exitVars
    /\ UNCHANGED vkVars
    /\ UNCHANGED <<loadVars, tdVars>>
    /\ UNCHANGED imgVars

\* main(): if (!bSubmitSuccess) return EXIT_FAILURE;
ResourcesUploadFailed ==
    /\ pc = "upload_failed"
    /\ pc' = "exit_failure"
    /\ UNCHANGED <<uploadNo, stagingBuffer, wdiCaller, cmdListState, graphicsQueue,
                   frameNo, calls, released>>
    /\ UNCHANGED fenceVars
    /\ UNCHANGED upVars
    /\ UNCHANGED mipVars
    /\ UNCHANGED exitVars
    /\ UNCHANGED vkVars
    /\ UNCHANGED <<loadVars, tdVars>>
    /\ UNCHANGED imgVars

\* Variant: cmdLists[0] is left open at the end of Resources.
ResourcesClose_NoClose ==
    /\ pc = "resources_close"
    /\ pc' = "loop"
    /\ UNCHANGED <<uploadNo, stagingBuffer, wdiCaller, cmdListState, graphicsQueue,
                   frameNo, calls, released>>
    /\ UNCHANGED fenceVars
    /\ UNCHANGED upVars
    /\ UNCHANGED mipVars
    /\ UNCHANGED exitVars
    /\ UNCHANGED vkVars
    /\ UNCHANGED <<loadVars, tdVars>>
    /\ UNCHANGED imgVars

ResourcesClose ==
    /\ pc = "resources_close"
    /\ cmdListState' = [cmdListState EXCEPT ![0] = "closed"]
    /\ pc' = "loop"
    /\ UNCHANGED <<uploadNo, stagingBuffer, wdiCaller, graphicsQueue, frameNo,
                   calls, released>>
    /\ UNCHANGED fenceVars
    /\ UNCHANGED upVars
    /\ UNCHANGED mipVars
    /\ UNCHANGED exitVars
    /\ UNCHANGED vkVars
    /\ UNCHANGED <<loadVars, tdVars>>
    /\ UNCHANGED imgVars

-----------------------------------------------------------------------------
(* The frame loop of main().                                               *)

\* while (!glfwWindowShouldClose(window))
LoopHead ==
    /\ pc = "loop"
    /\ \E shouldClose \in BOOLEAN :
        pc' = IF shouldClose \/ frameNo >= MaxFrames THEN "uninit" ELSE "begin"
    /\ UNCHANGED <<uploadNo, stagingBuffer, wdiCaller, cmdListState, graphicsQueue,
                   frameNo, calls, released>>
    /\ UNCHANGED fenceVars
    /\ UNCHANGED upVars
    /\ UNCHANGED mipVars
    /\ UNCHANGED exitVars
    /\ UNCHANGED vkVars
    /\ UNCHANGED <<loadVars, tdVars>>
    /\ UNCHANGED imgVars

\* Variant: the value is read before swapchainFrameIndex is updated.
CurrFenceValue_StaleIndex(values, prevIndex, newIndex) == values[prevIndex]

\* const UINT32 currFenceValue = swapchainFenceValues[swapchainFrameIndex];
\* read after swapchainFrameIndex was updated.
CurrFenceValue(values, prevIndex, newIndex) == values[newIndex]

\* Swapchain Begin up to the read of currFenceValue; backBufferIndex is the
\* value returned by swapchain->GetCurrentBackBufferIndex().
SwapchainBegin ==
    /\ pc = "begin"
    /\ \E backBufferIndex \in Slots :
        /\ prevFenceValue' = swapchainFenceValues[swapchainFrameIndex]
        /\ swapchainFrameIndex' = backBufferIndex
        /\ currFenceValue' =
              CurrFenceValue(swapchainFenceValues, swapchainFrameIndex, backBufferIndex)
        /\ frameNo' = frameNo + 1
        /\ calls' = calls \o
              << Call("enter", frameNo + 1, swapchainFrameIndex,
                      swapchainFenceValues[swapchainFrameIndex]),
                 Call("begin", frameNo + 1, backBufferIndex,
                      CurrFenceValue(swapchainFenceValues, swapchainFrameIndex,
                                     backBufferIndex)) >>
    /\ pc' = "begin_check"
    /\ UNCHANGED <<uploadNo, stagingBuffer, wdiCaller, deviceFence, deviceFenceValue,
                   swapchainFence, swapchainFenceValues, cmdListState, graphicsQueue,
                   released>>
    /\ UNCHANGED upVars
    /\ UNCHANGED mipVars
    /\ UNCHANGED exitVars
    /\ UNCHANGED vkVars
    /\ UNCHANGED <<loadVars, tdVars>>
    /\ UNCHANGED imgVars

\* Variant: the frame loop never waits for the fence.
MustWait_Never(completed, value) == FALSE

\* Variant: the comparison is off by one.
MustWait_OffByOne(completed, value) == completed + 1 < value

\* if (swapchainFence->GetCompletedValue() < currFenceValue)
MustWait(completed, value) == completed < value

\* The test of the completed value and, when the frame is not ready,
\* SetEventOnCompletion (which may fail: return EXIT_FAILURE).
BeginCheck ==
    /\ pc = "begin_check"
    /\ IF MustWait(swapchainFence, currFenceValue)
       THEN \E hrSetEvent \in {"ok", "failed"} :
               IF hrSetEvent = "ok"
               THEN /\ pc' = "begin_wait"
                    /\ calls' = calls
               ELSE /\ pc' = "exit_failure"
                    /\ calls' = Append(calls, Call("setevent_failed", frameNo,
                                                   swapchainFrameIndex, currFenceValue))
       ELSE /\ pc' = "begin_set"
            /\ calls' = calls
    /\ UNCHANGED <<uploadNo, stagingBuffer, wdiCaller, cmdListState, graphicsQueue,
                   frameNo, released>>
    /\ UNCHANGED fenceVars
    /\ UNCHANGED upVars
    /\ UNCHANGED mipVars
    /\ UNCHANGED exitVars
    /\ UNCHANGED vkVars
    /\ UNCHANGED <<loadVars, tdVars>>
    /\ UNCHANGED imgVars

\* WaitForSingleObjectEx(swapchainFenceEvent, INFINITE, FALSE)
BeginWait ==
    /\ pc = "begin_wait"
    /\ FenceReached(swapchainFence, currFenceValue)
    /\ pc' = "begin_set"
    /\ UNCHANGED <<uploadNo, stagingBuffer, wdiCaller, cmdListState, graphicsQueue,
                   frameNo, calls, released>>
    /\ UNCHANGED fenceVars
    /\ UNCHANGED upVars
    /\ UNCHANGED mipVars
    /\ UNCHANGED exitVars
    /\ UNCHANGED vkVars
    /\ UNCHANGED <<loadVars, tdVars>>
    /\ UNCHANGED imgVars

\* Variant: the new value is derived from the slot's own previous value.
NextFenceValue_SameSlot(prev, curr) == U32(curr + 1)

\* Variant: the increment is missing.
NextFenceValue_NoIncrement(prev, curr) == prev

\* prevFenceValue + 1, in UINT32.
NextFenceValue(prev, curr) == U32(prev + 1)

\* swapchainFenceValues[swapchainFrameIndex] = prevFenceValue + 1;
BeginSetFence ==
    /\ pc = "begin_set"
    /\ swapchainFenceValues' =
          [swapchainFenceValues EXCEPT ![swapchainFrameIndex] =
              NextFenceValue(prevFenceValue, currFenceValue)]
    /\ calls' = Append(calls, Call("waited", frameNo, swapchainFrameIndex, currFenceValue))
    /\ pc' = "camera"
    /\ UNCHANGED <<uploadNo, stagingBuffer, wdiCaller, deviceFence, deviceFenceValue,
                   swapchainFence, swapchainFrameIndex, prevFenceValue, currFenceValue,
                   cmdListState, graphicsQueue, frameNo, released>>
    /\ UNCHANGED upVars
    /\ UNCHANGED mipVars
    /\ UNCHANGED exitVars
    /\ UNCHANGED vkVars
    /\ UNCHANGED <<loadVars, tdVars>>
    /\ UNCHANGED imgVars

\* Update camera: Map, memcpy, Unmap of cameraBuffers[swapchainFrameIndex].
UpdateCamera ==
    /\ pc = "camera"
    /\ calls' = Append(calls, Call("camera", frameNo, swapchainFrameIndex, 0))
    /\ pc' = "reset"
    /\ UNCHANGED <<uploadNo, stagingBuffer, wdiCaller, cmdListState, graphicsQueue,
                   frameNo, released>>
    /\ UNCHANGED fenceVars
    /\ UNCHANGED upVars
    /\ UNCHANGED mipVars
    /\ UNCHANGED exitVars
    /\ UNCHANGED vkVars
    /\ UNCHANGED <<loadVars, tdVars>>
    /\ UNCHANGED imgVars

\* cmdAlloc->Reset(); cmd->Reset(cmdAlloc.Get(), nullptr);
RegisterReset ==
    /\ pc = "reset"
    /\ cmdListState' = [cmdListState EXCEPT ![swapchainFrameIndex] = "recording"]
    /\ calls' = Append(calls, Call("reset", frameNo, swapchainFrameIndex, 0))
    /\ pc' = "record"
    /\ UNCHANGED <<uploadNo, stagingBuffer, wdiCaller, graphicsQueue, frameNo, released>>
    /\ UNCHANGED fenceVars
    /\ UNCHANGED upVars
    /\ UNCHANGED mipVars
    /\ UNCHANGED exitVars
    /\ UNCHANGED vkVars
    /\ UNCHANGED <<loadVars, tdVars>>
    /\ UNCHANGED imgVars

\* Variant: the first barrier declares the render-target state as StateBefore.
ColorBarrierBefore_RenderTarget == D3D12_RESOURCE_STATE_RENDER_TARGET

\* "Color Transition to RenderTarget": .StateBefore
ColorBarrierBefore == D3D12_RESOURCE_STATE_COMMON

\* "Color Transition to RenderTarget": .StateAfter
ColorBarrierAfter == D3D12_RESOURCE_STATE_RENDER_TARGET

\* "Color Transition to Present": .StateBefore
PresentBarrierBefore == D3D12_RESOURCE_STATE_RENDER_TARGET

\* "Color Transition to Present": .StateAfter
PresentBarrierAfter == D3D12_RESOURCE_STATE_PRESENT

\* The recorded commands (barriers, clears, bindings, draw) and cmd->Close().
\* Each barrier is logged with the StateBefore it declares ("..._before") and
\* the state the image is in when it is recorded ("..._actual").
RegisterRecord ==
    /\ pc = "record"
    /\ cmdListState' = [cmdListState EXCEPT ![swapchainFrameIndex] = "closed"]
    /\ imageState' = [imageState EXCEPT ![swapchainFrameIndex] = PresentBarrierAfter]
    /\ calls' = calls \o
          << Call("color_before", frameNo, swapchainFrameIndex, ColorBarrierBefore),
             Call("color_actual", frameNo, swapchainFrameIndex,
                  imageState[swapchainFrameIndex]),
             Call("present_before", frameNo, swapchainFrameIndex, PresentBarrierBefore),
             Call("present_actual", frameNo, swapchainFrameIndex, ColorBarrierAfter),
             Call("close", frameNo, swapchainFrameIndex, PresentBarrierAfter) >>
    /\ pc' = "execute"
    /\ UNCHANGED <<uploadNo, stagingBuffer, wdiCaller, graphicsQueue, frameNo,
                   released>>
    /\ UNCHANGED fenceVars
    /\ UNCHANGED upVars
    /\ UNCHANGED mipVars
    /\ UNCHANGED exitVars
    /\ UNCHANGED vkVars
    /\ UNCHANGED <<loadVars, tdVars>>

\* graphicsQueue->ExecuteCommandLists(_countof(ppCommandLists), ppCommandLists);
Execute ==
    /\ pc = "execute"
    /\ graphicsQueue' = Append(graphicsQueue, QExec(swapchainFrameIndex, frameNo, 0, swapchainFrameIndex))
    /\ calls' = Append(calls, Call("exec", frameNo, swapchainFrameIndex, 0))
    /\ pc' = "present"
    /\ UNCHANGED <<uploadNo, stagingBuffer, wdiCaller, cmdListState, frameNo, released>>
    /\ UNCHANGED fenceVars
    /\ UNCHANGED upVars
    /\ UNCHANGED mipVars
    /\ UNCHANGED exitVars
    /\ UNCHANGED vkVars
    /\ UNCHANGED <<loadVars, tdVars>>
    /\ UNCHANGED imgVars

\* Variant: the frame is never handed to the swapchain.
Present_Dropped ==
    /\ pc = "present"
    /\ pc' = "signal"
    /\ UNCHANGED <<uploadNo, stagingBuffer, wdiCaller, cmdListState, graphicsQueue,
                   frameNo, calls, released>>
    /\ UNCHANGED fenceVars
    /\ UNCHANGED upVars
    /\ UNCHANGED mipVars
    /\ UNCHANGED exitVars
    /\ UNCHANGED vkVars
    /\ UNCHANGED <<loadVars, tdVars>>
    /\ UNCHANGED imgVars

\* swapchain->Present(1, 0); a failure returns EXIT_FAILURE.
Present ==
    /\ pc = "present"
    /\ \E hrPresent \in {"ok", "failed"} :
        IF hrPresent = "ok"
        THEN /\ graphicsQueue' =
                   Append(graphicsQueue, QPresent(swapchainFrameIndex, frameNo))
             /\ calls' = Append(calls, Call("present", frameNo, swapchainFrameIndex, 0))
             /\ pc' = "signal"
        ELSE /\ UNCHANGED <<graphicsQueue, calls>>
             /\ pc' = "exit_failure"
    /\ UNCHANGED <<uploadNo, stagingBuffer, wdiCaller, cmdListState, frameNo, released>>
    /\ UNCHANGED fenceVars
    /\ UNCHANGED upVars
    /\ UNCHANGED mipVars
    /\ UNCHANGED exitVars
    /\ UNCHANGED vkVars
    /\ UNCHANGED <<loadVars, tdVars>>
    /\ UNCHANGED imgVars

\* graphicsQueue->Signal(swapchainFence.Get(), currFenceValue) with
\* currFenceValue = swapchainFenceValues[swapchainFrameIndex]; a failure
\* returns EXIT_FAILURE.
Signal ==
    /\ pc = "signal"
    /\ \E hrFenceSignal \in {"ok", "failed"} :
        IF hrFenceSignal = "ok"
        THEN /\ graphicsQueue' = Append(graphicsQueue,
                   QSignal("swapchain", swapchainFenceValues[swapchainFrameIndex]))
             /\ calls' = Append(calls, Call("signal", frameNo, swapchainFrameIndex,
                   swapchainFenceValues[swapchainFrameIndex]))
             /\ pc' = "loop"
        ELSE /\ UNCHANGED <<graphicsQueue, calls>>
             /\ pc' = "exit_failure"
    /\ UNCHANGED <<uploadNo, stagingBuffer, wdiCaller, cmdListState, frameNo, released>>
    /\ UNCHANGED fenceVars
    /\ UNCHANGED upVars
    /\ UNCHANGED mipVars
    /\ UNCHANGED exitVars
    /\ UNCHANGED vkVars
    /\ UNCHANGED <<loadVars, tdVars>>
    /\ UNCHANGED imgVars

-----------------------------------------------------------------------------
(* Uninitialization: WaitDeviceIdle, then every object is released.        *)

Uninit ==
    /\ pc = "uninit"
    /\ wdiCaller' = "uninit"
    /\ pc' = "wdi_signal"
    /\ UNCHANGED <<uploadNo, stagingBuffer, cmdListState, graphicsQueue, frameNo,
                   calls, released>>
    /\ UNCHANGED fenceVars
    /\ UNCHANGED upVars
    /\ UNCHANGED mipVars
    /\ UNCHANGED exitVars
    /\ UNCHANGED vkVars
    /\ UNCHANGED <<loadVars, tdVars>>
    /\ UNCHANGED imgVars

Release ==
    /\ pc = "release"
    /\ released' = TRUE
    /\ pc' = "done"
    /\ UNCHANGED <<uploadNo, stagingBuffer, wdiCaller, cmdListState, graphicsQueue,
                   frameNo, calls>>
    /\ UNCHANGED fenceVars
    /\ UNCHANGED upVars
    /\ UNCHANGED mipVars
    /\ UNCHANGED exitVars
    /\ UNCHANGED vkVars
    /\ UNCHANGED <<loadVars, tdVars>>
    /\ UNCHANGED imgVars

Next ==
    \/ GPUStep
    \/ WaitDeviceIdleSignal
    \/ WaitDeviceIdleWait
    \/ ResourcesReset
    \/ ResourcesCreateTarget
    \/ UploadCreateStaging
    \/ UploadRecord
    \/ UploadExecute
    \/ UploadReset
    \/ ResourcesAfterUpload
    \/ ResourcesUploadFailed
    \/ ResourcesClose
    \/ LoopHead
    \/ SwapchainBegin
    \/ BeginCheck
    \/ BeginWait
    \/ BeginSetFence
    \/ UpdateCamera
    \/ RegisterReset
    \/ RegisterRecord
    \/ Execute
    \/ Present
    \/ Signal
    \/ Uninit
    \/ Release

Spec == Init /\ [][Next]_vars

-----------------------------------------------------------------------------
(* Submit*ToGPU called with arbitrary arguments: any of two targets (a     *)
(* buffer and a texture of main()), any size and source, several times.    *)

MaxUploadCalls == 2

MaxSize == 1

\* sphereVertexBuffers[0] and rustedIron2AlbedoTexture.
UploadTargets == {1, 6}

SourceData == {"null", "a", "b"}

UploadCallAny ==
    /\ pc = "upload_call"
    /\ \E t \in UploadTargets, size \in 0 .. MaxSize, data \in SourceData :
        /\ targetState' = IF targetState[t] = "none"
                          THEN [targetState EXCEPT ![t] = CreatedState(UploadKind(t))]
                          ELSE targetState
        /\ CallUpload(uploadNo,
               [target |-> t, kind |-> UploadKind(t), size |-> size, data |-> data,
                stateAfter |-> UploadStateAfter(t)])
    /\ UNCHANGED <<uploadNo, stagingBuffer, wdiCaller, cmdListState, graphicsQueue,
                   frameNo, calls, released>>
    /\ UNCHANGED fenceVars
    /\ UNCHANGED mipVars
    /\ UNCHANGED exitVars
    /\ UNCHANGED vkVars
    /\ UNCHANGED <<loadVars, tdVars>>
    /\ UNCHANGED imgVars

\* The caller after the helper returned true or false: the next call.
UploadAgain ==
    /\ pc \in {"upload_return", "upload_failed"}
    /\ IF uploadNo < MaxUploadCalls
       THEN /\ uploadNo' = uploadNo + 1
            /\ pc' = "upload_call"
       ELSE /\ uploadNo' = uploadNo
            /\ pc' = "upload_done"
    /\ UNCHANGED <<stagingBuffer, wdiCaller, cmdListState, graphicsQueue, frameNo,
                   calls, released>>
    /\ UNCHANGED fenceVars
    /\ UNCHANGED upVars
    /\ UNCHANGED mipVars
    /\ UNCHANGED exitVars
    /\ UNCHANGED vkVars
    /\ UNCHANGED <<loadVars, tdVars>>
    /\ UNCHANGED imgVars

NextUpload ==
    \/ GPUStep
    \/ WaitDeviceIdleSignal
    \/ WaitDeviceIdleWait
    \/ ResourcesReset
    \/ UploadCallAny
    \/ UploadCreateStaging
    \/ UploadRecord
    \/ UploadExecute
    \/ UploadReset
    \/ UploadAgain

SpecUpload == Init /\ [][NextUpload]_vars

-----------------------------------------------------------------------------
(* Properties of the frame loop and of the uploads.                        *)

CallsOf(op) == {p \in DOMAIN calls : calls[p].op = op}

\* Value of the last Signal of slot `slot` before position p of the history
\* (0 when the slot was never signalled).
LastSignalBefore(slot, p) ==
    LET S == {q \in CallsOf("signal") : q < p /\ calls[q].slot = slot}
    IN  IF S = {} THEN 0 ELSE calls[Max(S)].value

LastSignalOf(slot) == LastSignalBefore(slot, Len(calls) + 1)

\* Value of the last Signal before position p, whatever its slot.
PrevSignalBefore(p) ==
    LET S == {q \in CallsOf("signal") : q < p}
    IN  IF S = {} THEN 0 ELSE calls[Max(S)].value

\* Value signalled at the end of frame k.
SignalOfFrame(k) ==
    LET S == {q \in CallsOf("signal") : calls[q].frame = k}
    IN  IF S = {} THEN -1 ELSE calls[Max(S)].value

\* Every back-buffer index returned so far was the round-robin one.
RoundRobin ==
    \A p \in CallsOf("begin") : calls[p].slot = (calls[p].frame - 1) % bufferingCount

FrameLoopPcs ==
    {"loop", "begin", "begin_check", "begin_wait", "begin_set", "camera", "reset",
     "record", "execute", "present", "signal"}

PastWaitPcs == {"begin_set", "camera", "reset", "record", "execute", "present", "signal"}

UploadPcs == {"upload_create", "upload_record", "upload_execute", "upload_reset"}

\* C1: the command allocator and list of a slot are reset only when the
\* swapchain fence has reached the value signalled after the slot's previous
\* submission, whatever back-buffer indices the swapchain returns.
C1_ResetAfterFence ==
    pc = "reset" => swapchainFence >= LastSignalOf(swapchainFrameIndex)

\* A slot that was submitted and signalled before has been reset again.
C1_Witness ==
    \E p \in CallsOf("reset") : LastSignalBefore(calls[p].slot, p) > 0

\* C2: every upload, the first one included, gets past WaitDeviceIdle (and so
\* resets cmdAllocs[0] and releases its staging buffer) only when the GPU has
\* executed its copy commands, and no upload starts while an earlier upload's
\* command list is still to be executed.
C2_UploadReturnsAfterGPU ==
    pc \in UploadPcs =>
        \A p \in DOMAIN graphicsQueue : graphicsQueue[p].op # "exec"

\* C3: with round-robin indices the first bufferingCount frames never have
\* to wait, and frame k > bufferingCount waits for, and gets past its wait
\* only once the fence reached, the value signalled by frame k - bufferingCount.
C3_RoundRobinWait ==
    RoundRobin =>
        /\ (frameNo <= bufferingCount /\ pc \in {"begin_check", "begin_wait"})
              => (swapchainFence >= currFenceValue /\ pc = "begin_check")
        /\ (frameNo > bufferingCount /\ pc \in ({"begin_check", "begin_wait"} \cup PastWaitPcs))
              => currFenceValue = SignalOfFrame(frameNo - bufferingCount)
        /\ (frameNo > bufferingCount /\ pc \in PastWaitPcs)
              => swapchainFence >= SignalOfFrame(frameNo - bufferingCount)

\* The fifth round-robin frame got past its wait.
C3_Witness ==
    RoundRobin /\ frameNo = bufferingCount + 2 /\ pc = "begin_set"

\* C4: the value compared with the completed value and waited on is the value
\* signalled at the last use of the image just returned (0 if never used).
C4_WaitsOnReturnedImage ==
    pc \in {"begin_check", "begin_wait"} =>
        currFenceValue = LastSignalOf(swapchainFrameIndex)

\* The frame waits on a used image whose value is not the previous frame's.
C4_Witness ==
    pc = "begin_wait" /\ currFenceValue > 0 /\ currFenceValue # prevFenceValue

\* C5: a frame submitted before another is presented before the other is
\* submitted and before the other is presented.
C5_PresentOrder ==
    \A i, j \in CallsOf("exec") :
        i < j =>
            \E p \in CallsOf("present") :
                /\ calls[p].frame = calls[i].frame
                /\ i < p
                /\ p < j
                /\ \A q \in CallsOf("present") :
                      calls[q].frame = calls[j].frame => p < q

\* Two frames were submitted and both were presented.
C5_Witness ==
    \E i, j \in CallsOf("exec") :
        /\ i < j
        /\ \E q \in CallsOf("present") : calls[q].frame = calls[j].frame

\* C6 as claimed: the value signalled for a slot is that slot's previous
\* value plus 1.
C6_SameSlotPlusOne ==
    \A p \in CallsOf("signal") :
        calls[p].value = LastSignalBefore(calls[p].slot, p) + 1

\* C6 as amended: the value signalled at the end of a frame is the value
\* signalled at the end of the previous frame (0 before the first) plus 1.
C6_PrevFramePlusOne ==
    \A p \in CallsOf("signal") : calls[p].value = PrevSignalBefore(p) + 1

\* Two frames on different slots were signalled.
C6_Witness ==
    \E p, q \in CallsOf("signal") : p < q /\ calls[p].slot # calls[q].slot

\* C7: no slot's stored fence value ever decreases, and the values passed to
\* Signal are strictly increasing from frame to frame.
C7_FenceMonotonic ==
    [][ /\ \A i \in Slots : swapchainFenceValues'[i] >= swapchainFenceValues[i]
        /\ \A p, q \in {r \in DOMAIN calls' : calls'[r].op = "signal"} :
              p < q => calls'[p].value < calls'[q].value ]_vars

\* A slot's stored value was overwritten by a later frame and signalled.
C7_Witness ==
    \E p, q \in CallsOf("signal") : p < q /\ calls[p].slot = calls[q].slot

\* C8: in the frame loop every slot has at most one command list submitted
\* and not yet executed, so at most bufferingCount frames are in flight.
C8_OneInFlightPerSlot ==
    pc \in FrameLoopPcs =>
        /\ \A i \in Slots : Cardinality(InFlight(i)) <= 1
        /\ Cardinality({p \in DOMAIN graphicsQueue : graphicsQueue[p].op = "exec"})
              <= bufferingCount

\* Every slot has a command list in flight at the same time.
C8_Witness ==
    pc \in FrameLoopPcs /\ \A i \in Slots : Cardinality(InFlight(i)) = 1

\* C9: the CPU writes cameraBuffers[i] only when no submitted command list
\* that binds cameraBuffers[i] is still to be executed by the GPU.
C9_CameraWriteNotInFlight ==
    pc = "camera" =>
        \A p \in DOMAIN graphicsQueue :
            graphicsQueue[p].op = "exec" =>
                graphicsQueue[p].camera # swapchainFrameIndex

\* The camera buffer of a slot submitted before has been written again.
C9_Witness ==
    \E p \in CallsOf("camera") :
        \E q \in CallsOf("exec") : q < p /\ calls[q].slot = calls[p].slot

-----------------------------------------------------------------------------
(* GenerateMipMaps: the mip count and the loop computing the extents and   *)
(* the total size.  The inputs are the extent and channel count of a       *)
(* decoded image (at least 1 x 1), one layer (the default argument), and   *)
(* _outTotalSize set to 0 by the caller.                                   *)

RECURSIVE FloorLog2(_)
\* std::floor(std::log2(n)) for n >= 1
FloorLog2(n) == IF n <= 1 THEN 0 ELSE 1 + FloorLog2(n \div 2)

MaxOf(a, b) == IF a >= b THEN a ELSE b

\* Variant: the halving rounds up.
Halve_RoundUp(x) == IF x > 1 THEN (x + 1) \div 2 ELSE x

\* if (_extent.x > 1) _extent.x >>= 1;
Halve(x) == IF x > 1 THEN x \div 2 ELSE x

\* _extent.x * _extent.y * _channelNum * _layerNum * sizeof(stbi_uc)
LevelSize(e, channels, layers) == U32(U32(U32(e[1] * e[2]) * channels) * layers)

InitMip ==
    /\ InitDX
    /\ LoadIdle
    /\ TdIdle
    /\ ExitIdle
    /\ VkIdle
    /\ mipPc = "start"
    /\ inExtent \in (1 .. MaxExtent) \X (1 .. MaxExtent)
    /\ extent = inExtent
    /\ channelNum \in 1 .. MaxChannels
    /\ layerNum = 1
    /\ outMipLevels = 0
    /\ outTotalSize = 0
    /\ outExtents = <<>>
    /\ mipI = 0
    /\ srcOffset = 0
    /\ genOffsets = <<>>
    /\ genFailed = FALSE
    /\ offset = 0
    /\ copyOffsets = <<>>

\* _outMipLevels = floor(log2(max(x, y))) + 1; _outExtents.resize(_outMipLevels);
MipBegin ==
    /\ mipPc = "start"
    /\ outMipLevels' = FloorLog2(MaxOf(extent[1], extent[2])) + 1
    /\ outExtents' = [i \in 1 .. (FloorLog2(MaxOf(extent[1], extent[2])) + 1) |-> <<0, 0>>]
    /\ mipI' = 0
    /\ mipPc' = "size_loop"
    /\ UNCHANGED <<inExtent, extent, channelNum, layerNum, outTotalSize>>
    /\ UNCHANGED texVars
    /\ UNCHANGED dxVars
    /\ UNCHANGED exitVars
    /\ UNCHANGED vkVars
    /\ UNCHANGED <<loadVars, tdVars>>
    /\ UNCHANGED imgVars

\* One iteration of the loop "Compute Total Size & extents".
MipSizeStep ==
    /\ mipPc = "size_loop"
    /\ mipI < outMipLevels
    /\ outExtents' = [outExtents EXCEPT ![mipI + 1] = extent]
    /\ outTotalSize' = U32(outTotalSize + LevelSize(extent, channelNum, layerNum))
    /\ extent' = <<Halve(extent[1]), Halve(extent[2])>>
    /\ mipI' = mipI + 1
    /\ UNCHANGED <<mipPc, inExtent, channelNum, layerNum, outMipLevels>>
    /\ UNCHANGED texVars
    /\ UNCHANGED dxVars
    /\ UNCHANGED exitVars
    /\ UNCHANGED vkVars
    /\ UNCHANGED <<loadVars, tdVars>>
    /\ UNCHANGED imgVars

\* End of the loop; _data.resize(_outTotalSize).
MipResize ==
    /\ mipPc = "size_loop"
    /\ mipI >= outMipLevels
    /\ mipPc' = "resized"
    /\ UNCHANGED <<inExtent, extent, channelNum, layerNum, outMipLevels, outTotalSize,
                   outExtents, mipI>>
    /\ UNCHANGED texVars
    /\ UNCHANGED dxVars
    /\ UNCHANGED exitVars
    /\ UNCHANGED vkVars
    /\ UNCHANGED <<loadVars, tdVars>>
    /\ UNCHANGED imgVars

mipArgs == <<inExtent, extent, channelNum, layerNum, outMipLevels, outTotalSize, outExtents>>

\* unsigned char* src = _data.data(); first iteration of the loop "Generate" (i = 1).
MipGenBegin ==
    /\ mipPc = "resized"
    /\ mipPc' = "generate"
    /\ mipI' = 1
    /\ srcOffset' = 0
    /\ genOffsets' = <<0>>
    /\ UNCHANGED <<genFailed, offset, copyOffsets>>
    /\ UNCHANGED mipArgs
    /\ UNCHANGED dxVars
    /\ UNCHANGED exitVars
    /\ UNCHANGED vkVars
    /\ UNCHANGED <<loadVars, tdVars>>
    /\ UNCHANGED imgVars

\* _outExtents[i].x * _outExtents[i].y * _channelNum * sizeof(stbi_uc)
LayerOffset(e, channels) == U32(U32(e[1] * e[2]) * channels)

\* unsigned char* dst = src + srcLayerOffset * _layerNum;
GenDst(src, srcLayerOffset, layers) == src + srcLayerOffset * layers

\* One iteration of the outer loop of "Generate": level i is resized from level
\* i - 1 into dst, layer by layer; a failed resize returns from the function.
MipGenStep ==
    /\ mipPc = "generate"
    /\ mipI < outMipLevels
    /\ \E res \in BOOLEAN :
          IF res
          THEN /\ genOffsets' = Append(genOffsets,
                      GenDst(srcOffset, LayerOffset(outExtents[mipI], channelNum), layerNum))
               /\ srcOffset' = srcOffset + LayerOffset(outExtents[mipI], channelNum) * layerNum
               /\ mipI' = mipI + 1
               /\ UNCHANGED <<mipPc, genFailed>>
          ELSE /\ genFailed' = TRUE
               /\ mipPc' = "generated"
               /\ UNCHANGED <<genOffsets, srcOffset, mipI>>
    /\ UNCHANGED <<offset, copyOffsets>>
    /\ UNCHANGED mipArgs
    /\ UNCHANGED dxVars
    /\ UNCHANGED exitVars
    /\ UNCHANGED vkVars
    /\ UNCHANGED <<loadVars, tdVars>>
    /\ UNCHANGED imgVars

\* End of the loop "Generate": GenerateMipMaps returns.
MipGenDone ==
    /\ mipPc = "generate"
    /\ mipI >= outMipLevels
    /\ mipPc' = "generated"
    /\ UNCHANGED <<mipI, texVars>>
    /\ UNCHANGED mipArgs
    /\ UNCHANGED dxVars
    /\ UNCHANGED exitVars
    /\ UNCHANGED vkVars
    /\ UNCHANGED <<loadVars, tdVars>>
    /\ UNCHANGED imgVars

\* SubmitTextureToGPU: UINT64 offset = 0u; the texture was created with
\* MipLevels = mipLevels, and is passed the extents and channels of GenerateMipMaps.
TexCopyBegin ==
    /\ mipPc = "generated"
    /\ mipPc' = "copy"
    /\ mipI' = 0
    /\ offset' = 0
    /\ copyOffsets' = <<>>
    /\ UNCHANGED <<srcOffset, genOffsets, genFailed>>
    /\ UNCHANGED mipArgs
    /\ UNCHANGED dxVars
    /\ UNCHANGED exitVars
    /\ UNCHANGED vkVars
    /\ UNCHANGED <<loadVars, tdVars>>
    /\ UNCHANGED imgVars

\* offset += _extents[i].x * _extents[i].y * _channelNum;
CopyAdvance_RowPitch(e, channels) == U32(e[1] * channels)

CopyAdvance(e, channels) == U32(U32(e[1] * e[2]) * channels)

\* One iteration of the loop "Copy Buffer to texture".
TexCopyStep ==
    /\ mipPc = "copy"
    /\ mipI < outMipLevels
    /\ copyOffsets' = Append(copyOffsets, offset)
    /\ offset' = offset + CopyAdvance(outExtents[mipI + 1], channelNum)
    /\ mipI' = mipI + 1
    /\ UNCHANGED <<mipPc, srcOffset, genOffsets, genFailed>>
    /\ UNCHANGED mipArgs
    /\ UNCHANGED dxVars
    /\ UNCHANGED exitVars
    /\ UNCHANGED vkVars
    /\ UNCHANGED <<loadVars, tdVars>>
    /\ UNCHANGED imgVars

\* End of the copy loop.
TexCopyDone ==
    /\ mipPc = "copy"
    /\ mipI >= outMipLevels
    /\ mipPc' = "copied"
    /\ UNCHANGED <<mipI, texVars>>
    /\ UNCHANGED mipArgs
    /\ UNCHANGED dxVars
    /\ UNCHANGED exitVars
    /\ UNCHANGED vkVars
    /\ UNCHANGED <<loadVars, tdVars>>
    /\ UNCHANGED imgVars

NextMip ==
    \/ MipBegin
    \/ MipSizeStep
    \/ MipResize
    \/ MipGenBegin
    \/ MipGenStep
    \/ MipGenDone
    \/ TexCopyBegin
    \/ TexCopyStep
    \/ TexCopyDone

SpecMip == InitMip /\ [][NextMip]_vars

-----------------------------------------------------------------------------
(* Properties of GenerateMipMaps.                                          *)

RECURSIVE Pow2(_)
Pow2(i) == IF i = 0 THEN 1 ELSE 2 * Pow2(i - 1)

FloorDiv(a, b) == a \div b

CeilDiv(a, b) == (a + b - 1) \div b

RECURSIVE SumTo(_, _)
\* f[0] + ... + f[n - 1]
SumTo(f, n) == IF n = 0 THEN 0 ELSE f[n - 1] + SumTo(f, n - 1)

FloorLevelSizes ==
    [i \in 0 .. (outMipLevels - 1) |->
        MaxOf(1, FloorDiv(inExtent[1], Pow2(i)))
            * MaxOf(1, FloorDiv(inExtent[2], Pow2(i))) * channelNum]

CeilLevelSizes ==
    [i \in 0 .. (outMipLevels - 1) |->
        MaxOf(1, CeilDiv(inExtent[1], Pow2(i)))
            * MaxOf(1, CeilDiv(inExtent[2], Pow2(i))) * channelNum]

\* C10 as claimed: the total size is the sum over the levels of
\* ceil(W/2^i) * ceil(H/2^i) * C, each dimension at least 1.
C10_TotalSizeCeil ==
    mipPc = "resized" => outTotalSize = SumTo(CeilLevelSizes, outMipLevels)

\* C10 as amended: the total size is the sum over the levels of
\* floor(W/2^i) * floor(H/2^i) * C, each dimension at least 1.
C10_TotalSizeFloor ==
    mipPc = "resized" => outTotalSize = SumTo(FloorLevelSizes, outMipLevels)

\* The total size of an image whose sides are not powers of two was computed.
C10_Witness ==
    /\ mipPc = "resized"
    /\ inExtent = <<5, 3>>
    /\ channelNum = 4
    /\ outMipLevels = 3
    /\ outTotalSize = 4 * (15 + 2 + 1)

\* Level i of a W x H image, each extent halved i times and never below 1.
LevelExtent(i) ==
    <<MaxOf(1, FloorDiv(inExtent[1], Pow2(i))), MaxOf(1, FloorDiv(inExtent[2], Pow2(i)))>>

MipSized == mipPc \notin {"idle", "start", "size_loop"}

\* C11: GenerateMipMaps produces exactly floor(log2(max(W, H))) + 1 levels,
\* level i has extent (max(1, floor(W / 2^i)), max(1, floor(H / 2^i))), the last
\* level is 1x1 and no earlier level is 1x1.
C11_MipChain ==
    MipSized =>
        /\ Pow2(outMipLevels - 1) <= MaxOf(inExtent[1], inExtent[2])
        /\ MaxOf(inExtent[1], inExtent[2]) < Pow2(outMipLevels)
        /\ Len(outExtents) = outMipLevels
        /\ \A i \in 0 .. (outMipLevels - 1) : outExtents[i + 1] = LevelExtent(i)
        /\ outExtents[outMipLevels] = <<1, 1>>
        /\ \A i \in 0 .. (outMipLevels - 2) : outExtents[i + 1] # <<1, 1>>

C11_Witness ==
    /\ mipPc = "resized"
    /\ inExtent = <<7, 3>>
    /\ outMipLevels = 3
    /\ outExtents = << <<7, 3>>, <<3, 1>>, <<1, 1>> >>

\* Running sum of the level sizes before level i, in bytes.
OffsetOfLevel(i) ==
    SumTo([j \in 0 .. (outMipLevels - 1) |->
              outExtents[j + 1][1] * outExtents[j + 1][2] * channelNum], i)

\* C12: the staging offset SubmitTextureToGPU uses for level i is the running
\* sum of width_j * height_j * channelCount over the levels j < i, which is the
\* byte offset at which GenerateMipMaps wrote level i (single layer); the offset
\* after the last level is the total staging size.
C12_CopyOffsets ==
    mipPc = "copied" =>
        /\ Len(copyOffsets) = outMipLevels
        /\ \A i \in 0 .. (outMipLevels - 1) : copyOffsets[i + 1] = OffsetOfLevel(i)
        /\ \A i \in 0 .. (Len(genOffsets) - 1) : copyOffsets[i + 1] = genOffsets[i + 1]
        /\ offset = outTotalSize

C12_Witness ==
    /\ mipPc = "copied"
    /\ inExtent = <<5, 3>>
    /\ channelNum = 4
    /\ ~genFailed
    /\ genOffsets = <<0, 60, 68>>
    /\ copyOffsets = <<0, 60, 68>>
    /\ offset = 72

-----------------------------------------------------------------------------
(* The exit status of the three main() functions.  Each main() is the      *)
(* sequence, in source order, of its steps that can fail: a checked step   *)
(* is followed by an error log and a return statement (given by its line   *)
(* and the value returned), an unchecked step has its result ignored.      *)

EXIT_SUCCESS == 0

EXIT_FAILURE == 1

Checked(line, code) == [line |-> line, kind |-> "step", checked |-> TRUE, code |-> code]

CheckedKind(line, kind, code) == [line |-> line, kind |-> kind, checked |-> TRUE, code |-> code]

Unchecked(line, kind) == [line |-> line, kind |-> kind, checked |-> FALSE, code |-> -1]

\* Vulkan main() of mainVK.cpp.  CompileShaderFromFile returns false on
\* failure, and both calls drop the result.
StepsVK ==
    << Checked(314, EXIT_FAILURE), Checked(393, EXIT_FAILURE), Checked(422, EXIT_FAILURE),
       Checked(441, EXIT_FAILURE), Checked(458, EXIT_FAILURE), Checked(463, EXIT_FAILURE),
       Checked(471, EXIT_FAILURE), Checked(486, EXIT_FAILURE), Checked(494, EXIT_FAILURE),
       Checked(556, EXIT_SUCCESS), Checked(580, EXIT_FAILURE), Checked(643, EXIT_FAILURE),
       Checked(675, EXIT_FAILURE), Checked(685, EXIT_FAILURE), Checked(690, EXIT_FAILURE),
       Checked(698, EXIT_FAILURE), Checked(708, EXIT_FAILURE), Checked(713, EXIT_FAILURE),
       Checked(721, EXIT_FAILURE), Checked(795, EXIT_FAILURE), Checked(809, EXIT_FAILURE),
       Checked(850, EXIT_FAILURE), Checked(879, EXIT_FAILURE), Checked(892, EXIT_FAILURE),
       Checked(905, EXIT_FAILURE), Checked(931, EXIT_FAILURE), Checked(954, EXIT_FAILURE),
       Checked(995, EXIT_FAILURE), Checked(1020, EXIT_FAILURE), Checked(1032, EXIT_FAILURE),
       Checked(1069, EXIT_FAILURE), Checked(1155, EXIT_FAILURE), Checked(1189, EXIT_FAILURE),
       Checked(1267, EXIT_FAILURE), Checked(1315, EXIT_FAILURE),
       Unchecked(1328, "compile"), CheckedKind(1342, "module", EXIT_FAILURE),
       Unchecked(1354, "compile"), CheckedKind(1368, "module", EXIT_FAILURE),
       CheckedKind(1588, "pipeline", EXIT_FAILURE) >>

\* DirectX 12 main() in the second part of mainVK.cpp (no shaders yet).
StepsDXStarter ==
    << Checked(2134, 1), Checked(2170, 1), Checked(2184, 0), Checked(2191, 0), Checked(2239, 1), Checked(2267, 1),
       Checked(2274, 1), Checked(2283, 1), Checked(2290, 1), Checked(2301, 1), Checked(2315, 1), Checked(2322, 1),
       Checked(2346, 1), Checked(2381, 1), Checked(2416, 1), Checked(2451, 1), Checked(2486, 1), Checked(2529, 1),
       Checked(2571, 1), Checked(2595, 1), Checked(2612, 1), Checked(2636, 1), Checked(2653, 1), Checked(2677, 1),
       Checked(2694, 1), Checked(2718, 1) >>

\* DirectX 12 main() of part_000.
StepsDX ==
    << Checked(616, EXIT_FAILURE), Checked(652, EXIT_FAILURE), Checked(666, EXIT_FAILURE),
       Checked(673, EXIT_FAILURE), Checked(721, EXIT_FAILURE), Checked(733, EXIT_FAILURE),
       Checked(740, EXIT_FAILURE), Checked(767, EXIT_FAILURE), Checked(774, EXIT_FAILURE),
       Checked(783, EXIT_FAILURE), Checked(790, EXIT_FAILURE), Checked(801, EXIT_FAILURE),
       Checked(815, EXIT_FAILURE), Checked(822, EXIT_FAILURE), Checked(849, EXIT_FAILURE),
       Checked(895, EXIT_FAILURE), Checked(915, EXIT_FAILURE), Checked(937, EXIT_FAILURE),
       Checked(1112, EXIT_FAILURE), Checked(1120, EXIT_FAILURE),
       CheckedKind(1136, "compile", EXIT_FAILURE), CheckedKind(1151, "compile", EXIT_FAILURE),
       CheckedKind(1321, "pipeline", EXIT_FAILURE), Checked(1343, EXIT_FAILURE),
       Checked(1378, EXIT_FAILURE), Checked(1391, EXIT_FAILURE), Checked(1418, EXIT_FAILURE),
       Checked(1431, EXIT_FAILURE), Checked(1458, EXIT_FAILURE), Checked(1471, EXIT_FAILURE),
       Checked(1498, EXIT_FAILURE), Checked(1519, EXIT_FAILURE), Checked(1546, EXIT_FAILURE),
       Checked(1571, EXIT_FAILURE), Checked(1597, EXIT_FAILURE), Checked(1637, EXIT_FAILURE),
       Checked(1644, EXIT_FAILURE), Checked(1675, EXIT_FAILURE), Checked(1716, EXIT_FAILURE),
       Checked(1723, EXIT_FAILURE), Checked(1754, EXIT_FAILURE), Checked(1794, EXIT_FAILURE),
       Checked(1801, EXIT_FAILURE), Checked(1832, EXIT_FAILURE), Checked(1872, EXIT_FAILURE),
       Checked(1879, EXIT_FAILURE), Checked(1929, EXIT_FAILURE), Checked(1958, EXIT_FAILURE),
       Checked(1966, EXIT_FAILURE), Checked(1994, EXIT_FAILURE), Checked(2017, EXIT_FAILURE),
       Checked(2130, EXIT_FAILURE), Checked(2287, EXIT_FAILURE), Checked(2296, EXIT_FAILURE) >>

Mains == {"VK", "DXStarter", "DX"}

Steps(main) ==
    IF main = "VK" THEN StepsVK
    ELSE IF main = "DXStarter" THEN StepsDXStarter
    ELSE StepsDX

\* Line of the last statement of each main(): return 0.
FinalReturn(main) ==
    IF main = "VK" THEN 1822 ELSE IF main = "DXStarter" THEN 2855 ELSE 2460

InitExit ==
    /\ InitDX
    /\ LoadIdle
    /\ TdIdle
    /\ MipIdle
    /\ VkIdle
    /\ exMain \in Mains
    /\ exCode = -1
    /\ exTrace = <<>>

\* The next fallible step succeeds or fails; the failure of a checked step
\* returns that step's value from main(), the failure of an unchecked step
\* goes unnoticed.
ExitStep ==
    /\ exMain \in Mains
    /\ exCode = -1
    /\ Len(exTrace) < Len(Steps(exMain))
    /\ LET step == Steps(exMain)[Len(exTrace) + 1] IN
        \E ok \in BOOLEAN :
            /\ exTrace' = Append(exTrace,
                  [line |-> step.line, kind |-> step.kind, ok |-> ok])
            /\ exCode' = IF ~ok /\ step.checked THEN step.code ELSE -1
    /\ UNCHANGED exMain
    /\ UNCHANGED <<dxVars, mipVars>>
    /\ UNCHANGED vkVars
    /\ UNCHANGED <<loadVars, tdVars>>
    /\ UNCHANGED imgVars

\* Every step was run (the window was closed): uninitialization, return 0.
ExitNormal ==
    /\ exMain \in Mains
    /\ exCode = -1
    /\ Len(exTrace) = Len(Steps(exMain))
    /\ exTrace' = Append(exTrace,
          [line |-> FinalReturn(exMain), kind |-> "end", ok |-> TRUE])
    /\ exCode' = 0
    /\ UNCHANGED exMain
    /\ UNCHANGED <<dxVars, mipVars>>
    /\ UNCHANGED vkVars
    /\ UNCHANGED <<loadVars, tdVars>>
    /\ UNCHANGED imgVars

NextExit ==
    \/ ExitStep
    \/ ExitNormal

SpecExit == InitExit /\ [][NextExit]_vars

FailedSteps == {p \in DOMAIN exTrace : ~exTrace[p].ok}

\* C15: every failure path of initialization or of the frame loop, in each of
\* the three main() functions, terminates the process with a non-zero exit
\* status.
C15_FailureExitsNonZero ==
    \A p \in FailedSteps :
        /\ Len(exTrace) = p
        /\ exCode # -1
        /\ exCode # 0

\* C16: when the compilation of the vertex or of the fragment shader fails,
\* startup aborts before any shader module or pipeline is created.
C16_CompileFailureAborts ==
    \A p \in FailedSteps :
        exTrace[p].kind = "compile" =>
            /\ exCode \notin {-1, 0}
            /\ \A q \in DOMAIN exTrace :
                  q > p => exTrace[q].kind \notin {"module", "pipeline"}

-----------------------------------------------------------------------------
(* Properties of the upload helpers, of the frame order and of teardown.   *)

UpOps(op) == {p \in DOMAIN upLog : upLog[p].op = op}

\* C13: an upload called with size 0 or with a null source pointer fails with
\* an invalid-argument error before any copy or barrier command is recorded
\* and before anything is submitted.
C13_InvalidArgumentRejected ==
    /\ \A p \in DOMAIN upLog :
          (upLog[p].size = 0 \/ upLog[p].data = "null") =>
              /\ upLog[p].op \notin {"copy", "barrier", "submit"}
              /\ upLog[p].op = "return" => upLog[p].result = "false"
    /\ (upArgs.size = 0 \/ upArgs.data = "null") => pc # "crashed"

\* Frame k's entry of the call history with the given op, if any.
OfFrame(op, k) == {p \in CallsOf(op) : calls[p].frame = k}

\* C14: when Swapchain Begin fails (SetEventOnCompletion fails after the frame
\* index was updated), swapchainFrameIndex and every entry of
\* swapchainFenceValues are the same as before the call.
C14_FailedBeginKeepsSlotState ==
    \A p \in CallsOf("setevent_failed") :
        \A e \in OfFrame("enter", calls[p].frame) :
            /\ swapchainFrameIndex = calls[e].slot
            /\ swapchainFenceValues[calls[e].slot] = calls[e].value
            /\ \A i \in Slots : swapchainFenceValues[i] = LastSignalOf(i)

\* C17: when the loop ended by the window closing, Uninitialization gets past
\* WaitDeviceIdle, and so releases anything, only when every submitted command
\* list has been executed by the GPU.
C17_TeardownAfterGPUIdle ==
    (pc \in {"release", "done"} \/ released) =>
        \A p \in DOMAIN graphicsQueue : graphicsQueue[p].op # "exec"

C17_Witness ==
    /\ pc = "done"
    /\ released
    /\ frameNo = MaxFrames
    /\ CallsOf("exec") # {}

\* Recorded states of the n-th call: the target's state when the copy was
\* recorded, and the StateBefore the barrier declares.
CopyEntryOf(p) == upLog[p - 1]

\* C18 (as claimed): the StateBefore of every upload's barrier is the state the
\* target was created in or explicitly transitioned to, the state it is in when
\* the copy is recorded; after a successful upload the target is in finalState.
C18_StateBeforeIsTargetState ==
    /\ \A p \in UpOps("barrier") : upLog[p].state = CopyEntryOf(p).state
    /\ \A p \in UpOps("return") :
          upLog[p].result = "true" => upLog[p].state = upLog[p].stateAfter

\* C18 (amended): StateBefore is copy destination; that is the created state of
\* the textures, while the buffers are created in COMMON and nothing transitions
\* them before the barrier; the barrier leaves the target in finalState.
C18_StateBeforeIsCopyDest ==
    /\ \A p \in UpOps("barrier") :
          /\ upLog[p].state = "COPY_DEST"
          /\ CopyEntryOf(p).op = "copy"
          /\ upLog[p].kind = "texture" => CopyEntryOf(p).state = "COPY_DEST"
          /\ upLog[p].kind = "buffer" => CopyEntryOf(p).state = "COMMON"
    /\ \A p \in UpOps("return") :
          upLog[p].result = "true" =>
              /\ upLog[p].state = upLog[p].stateAfter
              /\ targetState[upLog[p].target] = upLog[p].stateAfter

C18_Witness ==
    /\ pc = "resources_close"
    /\ \E p \in UpOps("return") : upLog[p].kind = "buffer" /\ upLog[p].result = "true"
    /\ \E p \in UpOps("return") : upLog[p].kind = "texture" /\ upLog[p].result = "true"

\* Within every frame, each op of the list happens after the op listed before it.
FrameOrder(ops) ==
    \A i \in 1 .. (Len(ops) - 1) :
        \A p \in CallsOf(ops[i + 1]) :
            \E q \in OfFrame(ops[i], calls[p].frame) : q < p

OncePerFrame(ops) ==
    \A i \in 1 .. Len(ops) : \A p, q \in CallsOf(ops[i]) :
        calls[p].frame = calls[q].frame => p = q

\* C19 (as claimed): in every frame the order is fence wait, reset, recording
\* and Close, ExecuteCommandLists, the enqueue of the fence Signal, and only
\* then Present.
C19_SignalThenPresent ==
    FrameOrder(<<"waited", "reset", "close", "exec", "signal", "present">>)

\* C19 (amended): in every frame the order is fence wait, reset, recording and
\* Close, ExecuteCommandLists, Present, and only then the enqueue of the fence
\* Signal with the slot's new value; no step happens twice in a frame.
C19_PresentThenSignal ==
    /\ FrameOrder(<<"waited", "reset", "close", "exec", "present", "signal">>)
    /\ OncePerFrame(<<"waited", "reset", "close", "exec", "present", "signal">>)
    /\ \A p \in CallsOf("signal") :
          \A w \in OfFrame("waited", calls[p].frame) :
              /\ calls[w].slot = calls[p].slot
              /\ calls[p].value > calls[w].value

C19_Witness ==
    \E p, q \in CallsOf("signal") :
        /\ p < q
        /\ calls[p].slot = calls[q].slot
        /\ pc = "loop"

\* C20: uploading the same source bytes to the same target twice in a row
\* leaves the target with the same contents and final state, and the helper
\* state (cmdLists[0] recording, no live staging buffer) the same, as after the
\* first of the two uploads.
C20_SameUploadTwice ==
    \A p, q \in UpOps("return") :
        ( /\ upLog[q].no = upLog[p].no + 1
          /\ upLog[p].result = "true" /\ upLog[q].result = "true"
          /\ upLog[p].target = upLog[q].target
          /\ upLog[p].data = upLog[q].data
          /\ upLog[p].data # "null" ) =>
            /\ upLog[q].contents = upLog[p].contents
            /\ upLog[q].contents = upLog[q].data
            /\ upLog[q].state = upLog[p].state
            /\ upLog[q].list = "recording" /\ upLog[p].list = "recording"
            /\ upLog[q].staging = 0 /\ upLog[p].staging = 0

-----------------------------------------------------------------------------
(* Staging buffers, command list states and swapchain image states.        *)

UploadBusyPcs == {"upload_record", "upload_execute", "upload_reset"}

InUploadWait == pc \in {"wdi_signal", "wdi_wait"} /\ wdiCaller = "upload"

\* C21: each upload creates its own staging buffer, released when the upload
\* returns: between uploads none is alive, during an upload exactly one is, and
\* no staging buffer is used by two uploads.
C21_StagingLifetime ==
    /\ stagingBuffer = IF pc \in UploadBusyPcs \/ InUploadWait THEN 1 ELSE 0
    /\ \A p \in UpOps("call") : upLog[p].staging = 0
    /\ \A p \in UpOps("copy") : upLog[p].staging = 1
    /\ \A p \in UpOps("return") : upLog[p].staging = 0

C21_Witness ==
    /\ pc = "upload_execute"
    /\ uploadNo = 2
    /\ stagingBuffer = 1
    /\ \E p \in UpOps("return") : upLog[p].no = 1 /\ upLog[p].staging = 0

\* C25: for each swapchain image, over all frames, the StateBefore of every
\* recorded transition is the state the previous command left the image in (the
\* first barrier of a frame finds the state the last barrier of the image's
\* previous use left), and every recording leaves the image presentable.
C25_ImageStateMatches ==
    /\ \A p \in CallsOf("color_before") \cup CallsOf("present_before") :
          calls[p + 1].value = calls[p].value
    /\ \A p \in CallsOf("close") :
          /\ calls[p].value = D3D12_RESOURCE_STATE_PRESENT
          /\ \A q \in CallsOf("color_actual") :
                (q > p /\ calls[q].slot = calls[p].slot) => calls[q].value = calls[p].value
    /\ \A i \in Slots :
          imageState[i] \in {D3D12_RESOURCE_STATE_COMMON, D3D12_RESOURCE_STATE_PRESENT}

C25_Witness ==
    \E p, q \in CallsOf("close") :
        /\ p < q
        /\ calls[p].slot = calls[q].slot
        /\ calls[q].frame > calls[p].frame + 1

\* C26: every command list goes Closed -> Reset -> Recording -> Close -> Closed:
\* Reset is called on a closed list only, recording and Close on a recording
\* list only, ExecuteCommandLists gets closed lists only, and cmdLists[0], shared
\* by the uploads and frame slot 0, is closed and idle when the frame loop starts.
C26_CommandListStates ==
    /\ pc = "resources" => cmdListState[0] = "closed"
    /\ pc \in {"upload_call", "upload_create", "upload_record", "upload_return",
               "resources_close"} => cmdListState[0] = "recording"
    /\ (pc \in {"upload_execute", "upload_reset"} \/ InUploadWait) =>
          cmdListState[0] = "closed"
    /\ pc \in {"reset", "execute"} => cmdListState[swapchainFrameIndex] = "closed"
    /\ pc = "record" => cmdListState[swapchainFrameIndex] = "recording"
    /\ (pc = "loop" /\ frameNo = 0) =>
          /\ \A i \in Slots : cmdListState[i] = "closed"
          /\ InFlight(0) = {}

C26_Witness ==
    /\ pc = "record"
    /\ swapchainFrameIndex = 0
    /\ frameNo >= 2
    /\ cmdListState[0] = "recording"

-----------------------------------------------------------------------------
(* Vulkan main(): the search of a physical device and of its queue         *)
(* families, and the creation of the logical device.  What the driver      *)
(* reports for a device is drawn when the loop reaches that device.        *)

MaxDevices == 2

MaxFamilies == 2

VK_SUCCESS == 0

VK_FALSE == 0

VK_TRUE == 1

\* queueFlags & VK_QUEUE_GRAPHICS_BIT, and the VkBool32 that
\* vkGetPhysicalDeviceSurfaceSupportKHR writes for the family.
FamilyKinds == [graphics : BOOLEAN, present : {VK_FALSE, VK_TRUE}]

FamilyLists == UNION {[1 .. n -> FamilyKinds] : n \in 0 .. MaxFamilies}

\* exts: every extension of vkDeviceReqExts is among the supported ones.
DeviceKinds == [exts : BOOLEAN, families : FamilyLists]

InitVk ==
    /\ InitDX
    /\ LoadIdle
    /\ TdIdle
    /\ MipIdle
    /\ ExitIdle
    /\ vkPc = "vk_start"
    /\ vkDeviceCount = 0
    /\ vkDevIdx = 0
    /\ vkDev = NoDevice
    /\ vkFamIdx = 0
    /\ vkCurr = NoIndices
    /\ vkPhysicalDevice = 0
    /\ vkIndices = NoIndices
    /\ vkQueueCreate = <<>>
    /\ vkDevice = FALSE
    /\ vkSkippedQualified = FALSE
    /\ vkExit = -1
    /\ swapFormats = <<>>
    /\ swapFormat = "none"
    /\ swapModes = <<>>
    /\ swapMode = "none"

otherVars == <<dxVars, mipVars, exitVars, imgVars, loadVars, tdVars>>

swapVars == <<swapFormats, swapFormat, swapModes, swapMode>>

\* A device the driver reports really can present: it has the required
\* extensions, a graphics family, and a family that supports the surface.
Qualifies(dev) ==
    /\ dev.exts
    /\ \E i \in DOMAIN dev.families : dev.families[i].graphics
    /\ \E i \in DOMAIN dev.families : dev.families[i].present = VK_TRUE

\* vkEnumeratePhysicalDevices: the count, EXIT_FAILURE when it is 0.
VkEnumerate ==
    /\ vkPc = "vk_start"
    /\ \E n \in 0 .. MaxDevices :
        /\ vkDeviceCount' = n
        /\ IF n = 0
           THEN vkPc' = "vk_exit_no_gpu" /\ vkExit' = EXIT_FAILURE
           ELSE vkPc' = "vk_device" /\ vkExit' = vkExit
    /\ vkDevIdx' = 1
    /\ UNCHANGED <<vkDev, vkFamIdx, vkCurr, vkPhysicalDevice, vkIndices, vkQueueCreate,
                   vkDevice, vkSkippedQualified>>
    /\ UNCHANGED swapVars
    /\ UNCHANGED otherVars

\* Head of "for (auto& currPhysicalDevice : physicalDevices)" and the check
\* of the extensions: a failed enumeration returns EXIT_FAILURE, a device
\* without the required extensions is skipped.
VkNextDevice ==
    /\ vkPc = "vk_device"
    /\ IF vkDevIdx > vkDeviceCount
       THEN /\ vkPc' = "vk_check"
            /\ UNCHANGED <<vkDev, vkDevIdx, vkFamIdx, vkCurr, vkExit>>
       ELSE \E dev \in DeviceKinds, enumOk \in BOOLEAN :
              /\ vkDev' = dev
              /\ IF ~enumOk
                 THEN /\ vkPc' = "vk_exit_enum"
                      /\ vkExit' = EXIT_FAILURE
                      /\ UNCHANGED <<vkDevIdx, vkFamIdx, vkCurr>>
                 ELSE IF ~dev.exts
                 THEN /\ vkPc' = "vk_device"
                      /\ vkDevIdx' = vkDevIdx + 1
                      /\ UNCHANGED <<vkFamIdx, vkCurr, vkExit>>
                 ELSE /\ vkPc' = "vk_families"
                      /\ vkFamIdx' = 0
                      /\ vkCurr' = NoIndices
                      /\ UNCHANGED <<vkDevIdx, vkExit>>
    /\ UNCHANGED <<vkDeviceCount, vkPhysicalDevice, vkIndices, vkQueueCreate, vkDevice,
                   vkSkippedQualified>>
    /\ UNCHANGED swapVars
    /\ UNCHANGED otherVars

\* if (presentSupport == VK_SUCCESS)
PresentTest(presentSupport) == presentSupport = VK_SUCCESS

\* One iteration of "for (uint32_t i = 0; i < queueFamilyCount; ++i)".
VkFamily ==
    /\ vkPc = "vk_families"
    /\ vkFamIdx < Len(vkDev.families)
    /\ LET currFamily == vkDev.families[vkFamIdx + 1]
           graphics == IF vkCurr.graphicsFamily = NoFamily /\ currFamily.graphics
                       THEN vkFamIdx ELSE vkCurr.graphicsFamily
       IN IF vkCurr.presentFamily = NoFamily
          THEN \E vrSupportKHR \in {"ok", "failed"} :
                 IF vrSupportKHR = "failed"
                 THEN /\ vkCurr' = [vkCurr EXCEPT !.graphicsFamily = graphics]
                      /\ vkPc' = "vk_exit_support"
                      /\ vkExit' = EXIT_SUCCESS
                      /\ vkFamIdx' = vkFamIdx
                 ELSE /\ vkCurr' = [graphicsFamily |-> graphics,
                                    presentFamily |->
                                        IF PresentTest(currFamily.present)
                                        THEN vkFamIdx ELSE NoFamily]
                      /\ vkFamIdx' = vkFamIdx + 1
                      /\ UNCHANGED <<vkPc, vkExit>>
          ELSE /\ vkCurr' = [vkCurr EXCEPT !.graphicsFamily = graphics]
               /\ vkFamIdx' = vkFamIdx + 1
               /\ UNCHANGED <<vkPc, vkExit>>
    /\ UNCHANGED <<vkDeviceCount, vkDevIdx, vkDev, vkPhysicalDevice, vkIndices,
                   vkQueueCreate, vkDevice, vkSkippedQualified>>
    /\ UNCHANGED swapVars
    /\ UNCHANGED otherVars

\* "Check all queues can be created": continue, or take the device and break.
VkFamiliesDone ==
    /\ vkPc = "vk_families"
    /\ vkFamIdx >= Len(vkDev.families)
    /\ IF vkCurr.graphicsFamily = NoFamily \/ vkCurr.presentFamily = NoFamily
       THEN /\ vkDevIdx' = vkDevIdx + 1
            /\ vkPc' = "vk_device"
            /\ vkSkippedQualified' = (vkSkippedQualified \/ Qualifies(vkDev))
            /\ UNCHANGED <<vkIndices, vkPhysicalDevice>>
       ELSE /\ vkIndices' = vkCurr
            /\ vkPhysicalDevice' = vkDevIdx
            /\ vkPc' = "vk_check"
            /\ UNCHANGED <<vkDevIdx, vkSkippedQualified>>
    /\ UNCHANGED <<vkDeviceCount, vkDev, vkFamIdx, vkCurr, vkQueueCreate, vkDevice, vkExit>>
    /\ UNCHANGED swapVars
    /\ UNCHANGED otherVars

\* if (physicalDevice == VK_NULL_HANDLE) return EXIT_FAILURE;
VkCheckDevice ==
    /\ vkPc = "vk_check"
    /\ IF vkPhysicalDevice = 0
       THEN vkPc' = "vk_exit_no_device" /\ vkExit' = EXIT_FAILURE
       ELSE vkPc' = "vk_create" /\ vkExit' = vkExit
    /\ UNCHANGED <<vkDeviceCount, vkDevIdx, vkDev, vkFamIdx, vkCurr, vkPhysicalDevice,
                   vkIndices, vkQueueCreate, vkDevice, vkSkippedQualified>>
    /\ UNCHANGED swapVars
    /\ UNCHANGED otherVars

\* The queueFamilyIndex of the entries of the array queueCreateInfo.
QueueCreateInfo(indices) == <<indices.graphicsFamily, indices.presentFamily>>

\* vkCreateDevice with the two-entry queueCreateInfo array.
VkCreateDevice ==
    /\ vkPc = "vk_create"
    /\ vkQueueCreate' = QueueCreateInfo(vkIndices)
    /\ \E vrDeviceCreated \in {"ok", "failed"} :
        IF vrDeviceCreated = "ok"
        THEN vkDevice' = TRUE /\ vkPc' = "vk_created" /\ vkExit' = vkExit
        ELSE vkDevice' = FALSE /\ vkPc' = "vk_exit_create" /\ vkExit' = EXIT_FAILURE
    /\ UNCHANGED <<vkDeviceCount, vkDevIdx, vkDev, vkFamIdx, vkCurr, vkPhysicalDevice,
                   vkIndices, vkSkippedQualified>>
    /\ UNCHANGED swapVars
    /\ UNCHANGED otherVars

NextVk ==
    \/ VkEnumerate
    \/ VkNextDevice
    \/ VkFamily
    \/ VkFamiliesDone
    \/ VkCheckDevice
    \/ VkCreateDevice

SpecVk == InitVk /\ [][NextVk]_vars

Selected == vkPhysicalDevice # 0

\* Lowest index (from 0) of a family of the device with the given property.
FirstIndex(S) == CHOOSE i \in S : \A j \in S : i <= j

LowestGraphicsFamily(dev) ==
    FirstIndex({i \in DOMAIN dev.families : dev.families[i].graphics}) - 1

LowestPresentFamily(dev) ==
    FirstIndex({i \in DOMAIN dev.families : dev.families[i].present = VK_TRUE}) - 1

\* C27: the family recorded as presentFamily of a device is one for which
\* vkGetPhysicalDeviceSurfaceSupportKHR reported presentation as supported; a
\* family reported as not supporting it is never selected.
C27_PresentFamilySupported ==
    /\ (vkPc = "vk_families" /\ vkCurr.presentFamily # NoFamily) =>
          vkDev.families[vkCurr.presentFamily + 1].present = VK_TRUE
    /\ Selected => vkDev.families[vkIndices.presentFamily + 1].present = VK_TRUE

\* C29: the logical device is created with at most one queue-create entry
\* per queue family, also when graphicsFamily and presentFamily are the same.
C29_UniqueQueueFamilies ==
    \A i, j \in DOMAIN vkQueueCreate :
        i # j => vkQueueCreate[i] # vkQueueCreate[j]

\* C30: the physical device selected is the first one in enumeration order
\* with the required extensions, a graphics family and a present family, its
\* indices are the lowest such indices, and when no device qualifies
\* initialization fails with a failure status and creates no logical device.
C30_FirstQualifyingDevice ==
    /\ Selected =>
          /\ Qualifies(vkDev)
          /\ ~vkSkippedQualified
          /\ vkIndices.graphicsFamily = LowestGraphicsFamily(vkDev)
          /\ vkIndices.presentFamily = LowestPresentFamily(vkDev)
    /\ vkPc \in {"vk_exit_no_device", "vk_exit_no_gpu"} =>
          /\ ~vkSkippedQualified
          /\ vkExit # EXIT_SUCCESS
          /\ ~vkDevice
    /\ vkPc = "vk_exit_no_device" <=> (vkPc \notin {"vk_start", "vk_device", "vk_families",
                                                    "vk_check", "idle", "vk_exit_no_gpu",
                                                    "vk_exit_enum", "vk_exit_support"}
                                       /\ ~Selected)
    /\ vkDevice => Selected

-----------------------------------------------------------------------------
(* Vulkan main(): the choice of the swapchain's surface format and present *)
(* mode among what the surface lists.                                      *)

MaxFormats == 2

MaxModes == 2

SurfaceFormats ==
    [format : {"B8G8R8A8_SRGB", "R8G8B8A8_UNORM"},
     colorSpace : {"SRGB_NONLINEAR", "EXTENDED_SRGB_LINEAR"}]

\* VK_FORMAT_B8G8R8A8_SRGB with VK_COLOR_SPACE_SRGB_NONLINEAR_KHR
PreferredFormat == [format |-> "B8G8R8A8_SRGB", colorSpace |-> "SRGB_NONLINEAR"]

FormatLists == UNION {[1 .. n -> SurfaceFormats] : n \in 0 .. MaxFormats}

\* A surface always lists VK_PRESENT_MODE_FIFO_KHR among its present modes.
ModeLists ==
    {<<>>} \cup
    {m \in UNION {[1 .. n -> {"IMMEDIATE", "MAILBOX", "FIFO"}] : n \in 1 .. MaxModes} :
        \E i \in DOMAIN m : m[i] = "FIFO"}

InitSwap ==
    /\ InitDX
    /\ LoadIdle
    /\ TdIdle
    /\ MipIdle
    /\ ExitIdle
    /\ vkPc = "swap_start"
    /\ vkDeviceCount = 0
    /\ vkDevIdx = 0
    /\ vkDev = NoDevice
    /\ vkFamIdx = 0
    /\ vkCurr = NoIndices
    /\ vkPhysicalDevice = 0
    /\ vkIndices = NoIndices
    /\ vkQueueCreate = <<>>
    /\ vkDevice = FALSE
    /\ vkSkippedQualified = FALSE
    /\ vkExit = -1
    /\ swapFormats = <<>>
    /\ swapFormat = "none"
    /\ swapModes = <<>>
    /\ swapMode = "none"

vkDeviceVars == <<vkDeviceCount, vkDevIdx, vkDev, vkFamIdx, vkCurr, vkPhysicalDevice,
                  vkIndices, vkQueueCreate, vkDevice, vkSkippedQualified>>

\* "Query Support Details": the formats and the present modes of the surface;
\* an empty list returns EXIT_FAILURE.
SwapQuery ==
    /\ vkPc = "swap_start"
    /\ \E formats \in FormatLists, modes \in ModeLists :
        /\ swapFormats' = formats
        /\ swapModes' = modes
        /\ IF formats = <<>> \/ modes = <<>>
           THEN vkPc' = "swap_exit" /\ vkExit' = EXIT_FAILURE
           ELSE vkPc' = "swap_format" /\ vkExit' = vkExit
    /\ UNCHANGED <<swapFormat, swapMode>>
    /\ UNCHANGED vkDeviceVars
    /\ UNCHANGED otherVars

\* swapchainFormat = formats[0], replaced by the first preferred entry.
ChooseSwapSurfaceFormat(formats) ==
    LET preferred == {i \in DOMAIN formats : formats[i] = PreferredFormat}
    IN IF preferred = {} THEN formats[1] ELSE formats[FirstIndex(preferred)]

SwapFormatStep ==
    /\ vkPc = "swap_format"
    /\ swapFormat' = ChooseSwapSurfaceFormat(swapFormats)
    /\ vkPc' = "swap_mode"
    /\ UNCHANGED <<swapFormats, swapModes, swapMode, vkExit>>
    /\ UNCHANGED vkDeviceVars
    /\ UNCHANGED otherVars

\* Variant: the fallback is the first listed present mode.
ChooseSwapPresentMode_First(modes) ==
    IF \E i \in DOMAIN modes : modes[i] = "MAILBOX" THEN "MAILBOX" ELSE modes[1]

\* swapchainPresentMode = VK_PRESENT_MODE_FIFO_KHR, replaced by MAILBOX if listed.
ChooseSwapPresentMode(modes) ==
    IF \E i \in DOMAIN modes : modes[i] = "MAILBOX" THEN "MAILBOX" ELSE "FIFO"

SwapModeStep ==
    /\ vkPc = "swap_mode"
    /\ swapMode' = ChooseSwapPresentMode(swapModes)
    /\ vkPc' = "swap_done"
    /\ UNCHANGED <<swapFormats, swapFormat, swapModes, vkExit>>
    /\ UNCHANGED vkDeviceVars
    /\ UNCHANGED otherVars

NextSwap ==
    \/ SwapQuery
    \/ SwapFormatStep
    \/ SwapModeStep

SpecSwap == InitSwap /\ [][NextSwap]_vars

FormatAsClaimed ==
    swapFormat = IF \E i \in DOMAIN swapFormats : swapFormats[i] = PreferredFormat
                 THEN PreferredFormat ELSE swapFormats[1]

MailboxListed == \E i \in DOMAIN swapModes : swapModes[i] = "MAILBOX"

\* C24 (as claimed): the surface format is the preferred one if listed and
\* otherwise the first listed format, and the present mode is MAILBOX if listed
\* and otherwise the first listed present mode.
C24_PreferredElseFirst ==
    vkPc = "swap_done" =>
        /\ FormatAsClaimed
        /\ swapMode = IF MailboxListed THEN "MAILBOX" ELSE swapModes[1]

\* C24 (amended): the surface format is the preferred one if listed and
\* otherwise the first listed format; the present mode is MAILBOX if listed and
\* otherwise FIFO, wherever FIFO stands in the list.
C24_PreferredElseFifo ==
    vkPc = "swap_done" =>
        /\ FormatAsClaimed
        /\ swapMode = IF MailboxListed THEN "MAILBOX" ELSE "FIFO"
        /\ \E i \in DOMAIN swapModes : swapModes[i] = swapMode

C24_Witness ==
    /\ vkPc = "swap_done"
    /\ swapModes = <<"IMMEDIATE", "FIFO">>
    /\ swapMode = "FIFO"
    /\ Len(swapFormats) = 2
    /\ swapFormats[1] # PreferredFormat
    /\ swapFormat = PreferredFormat

-----------------------------------------------------------------------------
(* The loading of the four RustedIron2 textures: stbi_load decodes the     *)
(* file into a buffer of the requested number of bytes per pixel and       *)
(* reports the channel count of the file, which the program then uses.     *)

MaxTexExtent == 2

\* Channel counts an image file may report.
FileChannels == {1, 3, 4}

\* The textures in the order the program loads them.
Textures == <<"Albedo", "Normal", "Metallic", "Roughness">>

\* Last argument of stbi_load: bytes per pixel of the decoded buffer.
DesiredChannels(tex) == IF tex \in {"Albedo", "Normal"} THEN 4 ELSE 1

\* Bytes per pixel of the texture's format (R8G8B8A8_UNORM or R8_UNORM).
FormatBytes(tex) == IF tex \in {"Albedo", "Normal"} THEN 4 ELSE 1

\* The value of `channels` after the load: what stbi_load stored (the channel
\* count of the file), overwritten with 4 for the normal map only.
ChannelsUsed(tex, fileChannels) == IF tex = "Normal" THEN 4 ELSE fileChannels

InitTex ==
    /\ InitDX
    /\ MipIdle
    /\ ExitIdle
    /\ VkIdle
    /\ TdIdle
    /\ ldPc = "load"
    /\ ldTex = 1
    /\ ldImg = NoImage

texOtherVars == <<dxVars, mipVars, exitVars, imgVars, vkVars, tdVars>>

\* stbi_load(path, &width, &height, &channels, desired); a null result returns
\* EXIT_FAILURE.
TexStbiLoad ==
    /\ ldPc = "load"
    /\ \E ok \in BOOLEAN, w \in 1 .. MaxTexExtent, h \in 1 .. MaxTexExtent,
          fileChannels \in FileChannels :
        IF ok
        THEN /\ ldImg' = [NoImage EXCEPT
                    !.width = w, !.height = h, !.fileChannels = fileChannels,
                    !.channels = ChannelsUsed(Textures[ldTex], fileChannels),
                    !.decodedSize = w * h * DesiredChannels(Textures[ldTex])]
             /\ ldPc' = "vector"
        ELSE /\ ldImg' = ldImg
             /\ ldPc' = "load_failed"
    /\ UNCHANGED ldTex
    /\ UNCHANGED texOtherVars

\* std::vector<char> data(inData, inData + width * height * channels): a range
\* longer than the decoded buffer reads past it, which may crash or go on.
TexBuildVector ==
    /\ ldPc = "vector"
    /\ LET size == ldImg.width * ldImg.height * ldImg.channels
       IN /\ ldImg' = [ldImg EXCEPT !.dataSize = size]
          /\ IF size > ldImg.decodedSize
             THEN ldPc' \in {"mips", "crashed"}
             ELSE ldPc' = "mips"
    /\ UNCHANGED ldTex
    /\ UNCHANGED texOtherVars

\* GenerateMipMaps(..., channels), creation of the texture in its format, and
\* SubmitTextureToGPU(..., channels, ...): RowPitch of level 0 is
\* width * _channelNum.
TexSubmit ==
    /\ ldPc = "mips"
    /\ ldImg' = [ldImg EXCEPT !.rowPitch = ldImg.width * ldImg.channels]
    /\ ldPc' = "loaded"
    /\ UNCHANGED ldTex
    /\ UNCHANGED texOtherVars

\* stbi_image_free, the view, then the next texture.
TexNext ==
    /\ ldPc = "loaded"
    /\ IF ldTex < Len(Textures)
       THEN ldTex' = ldTex + 1 /\ ldPc' = "load" /\ ldImg' = NoImage
       ELSE ldTex' = ldTex /\ ldPc' = "done" /\ ldImg' = ldImg
    /\ UNCHANGED texOtherVars

NextTex ==
    \/ TexStbiLoad
    \/ TexBuildVector
    \/ TexSubmit
    \/ TexNext

SpecTex == InitTex /\ [][NextTex]_vars

\* C28: for each of the four textures and each channel count of the file, the
\* channel count the program uses for the pixel vector, the mips and RowPitch
\* is the bytes per pixel of the decoded buffer and of the texture format, and
\* the pixel vector never reads past the decoded buffer.
C28_ChannelCountMatches ==
    /\ ldPc # "crashed"
    /\ ldPc \in {"vector", "mips", "loaded"} =>
        /\ ldImg.channels = DesiredChannels(Textures[ldTex])
        /\ ldImg.channels = FormatBytes(Textures[ldTex])
    /\ ldPc \in {"mips", "loaded"} => ldImg.dataSize <= ldImg.decodedSize
    /\ ldPc = "loaded" => ldImg.rowPitch = ldImg.width * FormatBytes(Textures[ldTex])

-----------------------------------------------------------------------------
(* Creation and teardown of the renderer objects of the Vulkan and of the  *)
(* DirectX12 program, in the order of the calls in main().                 *)

One(name) == <<[name |-> name, slot |-> 0]>>

Slot(name, i) == <<[name |-> name, slot |-> i]>>

\* for (uint32_t i = 0; i < bufferingCount; ++i): the named objects of slot i,
\* in the order given, slot after slot.
ForSlots(names) ==
    LET body(i) == [k \in 1 .. Len(names) |-> [name |-> names[k], slot |-> i]]
        upTo[n \in 0 .. bufferingCount] ==
            IF n = 0 THEN <<>> ELSE upTo[n - 1] \o body(n - 1)
    IN upTo[bufferingCount]

\* swapchainSyncs[i]: the three objects of a slot, in the order of the loop body.
VkSyncs == <<"acquireSemaphore", "presentSemaphore", "fence">>

\* Vulkan main(): the objects in the order they are created.
CreationVK ==
    One("window") \o One("instance") \o One("windowSurface") \o One("device")
    \o One("swapchain") \o ForSlots(<<"swapchainImageViews">>) \o ForSlots(VkSyncs)
    \o One("cmdPool") \o One("cmdBuffers")
    \o One("sceneDepthImage") \o One("sceneDepthImageMemory")
    \o One("sceneDepthImageView")
    \o One("renderPass") \o ForSlots(<<"framebuffers">>)
    \o One("litDescSetLayout") \o One("litPipelineLayout")
    \o One("litVertexShader") \o One("litFragmentShader") \o One("litPipeline")

\* Variant: the device is destroyed before the swapchain section.
TeardownVK_DeviceFirst ==
    One("litPipeline") \o One("litFragmentShader") \o One("litVertexShader")
    \o One("litPipelineLayout") \o One("litDescSetLayout")
    \o ForSlots(<<"framebuffers">>) \o One("renderPass")
    \o One("sceneDepthImageView") \o One("sceneDepthImageMemory")
    \o One("sceneDepthImage")
    \o One("cmdBuffers") \o One("cmdPool")
    \o One("device")
    \o ForSlots(VkSyncs) \o ForSlots(<<"swapchainImageViews">>) \o One("swapchain")
    \o One("windowSurface") \o One("instance") \o One("window")

\* Vulkan main(), Uninitialization: the objects in the order they are destroyed.
TeardownVK ==
    One("litPipeline") \o One("litFragmentShader") \o One("litVertexShader")
    \o One("litPipelineLayout") \o One("litDescSetLayout")
    \o ForSlots(<<"framebuffers">>) \o One("renderPass")
    \o One("sceneDepthImageView") \o One("sceneDepthImageMemory")
    \o One("sceneDepthImage")
    \o One("cmdBuffers") \o One("cmdPool")
    \o ForSlots(VkSyncs) \o ForSlots(<<"swapchainImageViews">>) \o One("swapchain")
    \o One("device") \o One("windowSurface") \o One("instance") \o One("window")

SphereVertexBuffers ==
    Slot("sphereVertexBuffers", 0) \o Slot("sphereVertexBuffers", 1)
    \o Slot("sphereVertexBuffers", 2) \o Slot("sphereVertexBuffers", 3)

DxResources ==
    SphereVertexBuffers \o One("sphereIndexBuffer")
    \o One("rustedIron2AlbedoTexture") \o One("rustedIron2NormalTexture")
    \o One("rustedIron2MetallicTexture") \o One("rustedIron2RoughnessTexture")
    \o ForSlots(<<"cameraBuffers">>) \o One("objectBuffer") \o One("pointLightBuffer")

\* DirectX12 main(): the objects in the order they are created.
CreationDX ==
    One("window") \o One("factory")
    \o One("device") \o One("graphicsQueue") \o One("deviceFenceEvent")
    \o One("deviceFence")
    \o One("swapchain") \o One("swapchainFenceEvent") \o One("swapchainFence")
    \o ForSlots(<<"swapchainImages">>)
    \o ForSlots(<<"cmdAllocs", "cmdLists">>)
    \o One("sceneRTViewHeap") \o One("sceneDepthTexture")
    \o One("sceneDepthRTViewHeap") \o One("srvHeap")
    \o One("litRootSign") \o One("litVertexShader") \o One("litPixelShader")
    \o One("litPipelineState")
    \o DxResources

\* Variant: the scene resources are released before the pipeline.
TeardownDX_SceneFirst ==
    DxResources
    \o One("sceneRTViewHeap") \o One("sceneDepthRTViewHeap")
    \o One("sceneDepthTexture") \o One("srvHeap")
    \o One("litPipelineState") \o One("litVertexShader") \o One("litPixelShader")
    \o One("litRootSign")
    \o ForSlots(<<"cmdLists">>) \o ForSlots(<<"cmdAllocs">>)
    \o One("swapchainFenceEvent") \o One("swapchainFence")
    \o ForSlots(<<"swapchainImages">>) \o One("swapchain")
    \o One("deviceFenceEvent") \o One("deviceFence") \o One("graphicsQueue")
    \o One("device") \o One("factory") \o One("window")

\* DirectX12 main(), Uninitialization: the objects in the order they are
\* released (array.fill(nullptr) releases the elements in index order).
TeardownDX ==
    DxResources
    \o One("litPipelineState") \o One("litVertexShader") \o One("litPixelShader")
    \o One("litRootSign")
    \o One("sceneRTViewHeap") \o One("sceneDepthRTViewHeap")
    \o One("sceneDepthTexture") \o One("srvHeap")
    \o ForSlots(<<"cmdLists">>) \o ForSlots(<<"cmdAllocs">>)
    \o One("swapchainFenceEvent") \o One("swapchainFence")
    \o ForSlots(<<"swapchainImages">>) \o One("swapchain")
    \o One("deviceFenceEvent") \o One("deviceFence") \o One("graphicsQueue")
    \o One("device") \o One("factory") \o One("window")

Creation(main) == IF main = "VK" THEN CreationVK ELSE CreationDX

Teardown(main) == IF main = "VK" THEN TeardownVK ELSE TeardownDX

InitTeardown ==
    /\ InitDX
    /\ MipIdle
    /\ ExitIdle
    /\ VkIdle
    /\ LoadIdle
    /\ tdMain \in {"VK", "DX"}
    /\ tdPc = "create"
    /\ tdCreated = <<>>
    /\ tdDestroyed = <<>>

tdOtherVars == <<dxVars, mipVars, exitVars, imgVars, vkVars, loadVars>>

\* Initialization: the next object is created.
TdCreate ==
    /\ tdPc = "create"
    /\ Len(tdCreated) < Len(Creation(tdMain))
    /\ tdCreated' = Append(tdCreated, Creation(tdMain)[Len(tdCreated) + 1])
    /\ UNCHANGED <<tdMain, tdPc, tdDestroyed>>
    /\ UNCHANGED tdOtherVars

\* The frame loop ends (the window is closed): Uninitialization starts.
TdLoopEnd ==
    /\ tdPc = "create"
    /\ Len(tdCreated) = Len(Creation(tdMain))
    /\ tdPc' = "destroy"
    /\ UNCHANGED <<tdMain, tdCreated, tdDestroyed>>
    /\ UNCHANGED tdOtherVars

\* Uninitialization: the next object is destroyed; after the last one, return 0.
TdDestroy ==
    /\ tdPc = "destroy"
    /\ tdDestroyed' = Append(tdDestroyed, Teardown(tdMain)[Len(tdDestroyed) + 1])
    /\ tdPc' = IF Len(tdDestroyed) + 1 = Len(Teardown(tdMain)) THEN "done" ELSE "destroy"
    /\ UNCHANGED <<tdMain, tdCreated>>
    /\ UNCHANGED tdOtherVars

NextTeardown ==
    \/ TdCreate
    \/ TdLoopEnd
    \/ TdDestroy

SpecTeardown == InitTeardown /\ [][NextTeardown]_vars

\* The objects whose handles are arguments of the creation of an object.
DependsVK ==
    [window |-> {}, instance |-> {}, windowSurface |-> {"instance", "window"},
     device |-> {"instance"}, swapchain |-> {"device", "windowSurface"},
     swapchainImageViews |-> {"device", "swapchain"},
     acquireSemaphore |-> {"device"}, presentSemaphore |-> {"device"},
     fence |-> {"device"}, cmdPool |-> {"device"},
     cmdBuffers |-> {"device", "cmdPool"},
     sceneDepthImage |-> {"device"}, sceneDepthImageMemory |-> {"device"},
     sceneDepthImageView |-> {"device", "sceneDepthImage"},
     renderPass |-> {"device"},
     framebuffers |-> {"device", "renderPass", "swapchainImageViews",
                       "sceneDepthImageView"},
     litDescSetLayout |-> {"device"},
     litPipelineLayout |-> {"device", "litDescSetLayout"},
     litVertexShader |-> {"device"}, litFragmentShader |-> {"device"},
     litPipeline |-> {"device", "litPipelineLayout", "renderPass",
                      "litVertexShader", "litFragmentShader"}]

DependsDX ==
    [window |-> {}, factory |-> {}, device |-> {"factory"},
     graphicsQueue |-> {"device"}, deviceFenceEvent |-> {},
     deviceFence |-> {"device"},
     swapchain |-> {"factory", "graphicsQueue", "window"},
     swapchainFenceEvent |-> {}, swapchainFence |-> {"device"},
     swapchainImages |-> {"swapchain"},
     cmdAllocs |-> {"device"}, cmdLists |-> {"device", "cmdAllocs"},
     sceneRTViewHeap |-> {"device"}, sceneDepthTexture |-> {"device"},
     sceneDepthRTViewHeap |-> {"device"}, srvHeap |-> {"device"},
     litRootSign |-> {"device"}, litVertexShader |-> {}, litPixelShader |-> {},
     litPipelineState |-> {"device", "litRootSign", "litVertexShader",
                           "litPixelShader"},
     sphereVertexBuffers |-> {"device"}, sphereIndexBuffer |-> {"device"},
     rustedIron2AlbedoTexture |-> {"device"},
     rustedIron2NormalTexture |-> {"device"},
     rustedIron2MetallicTexture |-> {"device"},
     rustedIron2RoughnessTexture |-> {"device"},
     cameraBuffers |-> {"device"}, objectBuffer |-> {"device"},
     pointLightBuffer |-> {"device"}]

Depends(main) == IF main = "VK" THEN DependsVK ELSE DependsDX

\* The section of main() (its "// ..." blocks) an object is created in.
SectionVK ==
    [window |-> "GLFW", instance |-> "Instance", windowSurface |-> "Surface",
     device |-> "Device", swapchain |-> "Swapchain",
     swapchainImageViews |-> "Swapchain", acquireSemaphore |-> "Swapchain",
     presentSemaphore |-> "Swapchain", fence |-> "Swapchain",
     cmdPool |-> "Commands", cmdBuffers |-> "Commands",
     sceneDepthImage |-> "Scene Resources",
     sceneDepthImageMemory |-> "Scene Resources",
     sceneDepthImageView |-> "Scene Resources",
     renderPass |-> "RenderPass", framebuffers |-> "Framebuffers",
     litDescSetLayout |-> "DescriptorSet", litPipelineLayout |-> "Pipeline",
     litVertexShader |-> "Pipeline", litFragmentShader |-> "Pipeline",
     litPipeline |-> "Pipeline"]

SectionDX ==
    [window |-> "GLFW", factory |-> "Factory", device |-> "Device",
     graphicsQueue |-> "Device", deviceFenceEvent |-> "Device",
     deviceFence |-> "Device", swapchain |-> "Swapchain",
     swapchainFenceEvent |-> "Swapchain", swapchainFence |-> "Swapchain",
     swapchainImages |-> "Swapchain",
     cmdAllocs |-> "Commands", cmdLists |-> "Commands",
     sceneRTViewHeap |-> "Scene Resources",
     sceneDepthTexture |-> "Scene Resources",
     sceneDepthRTViewHeap |-> "Scene Resources", srvHeap |-> "Scene Resources",
     litRootSign |-> "Pipeline", litVertexShader |-> "Pipeline",
     litPixelShader |-> "Pipeline", litPipelineState |-> "Pipeline",
     sphereVertexBuffers |-> "Resources", sphereIndexBuffer |-> "Resources",
     rustedIron2AlbedoTexture |-> "Resources",
     rustedIron2NormalTexture |-> "Resources",
     rustedIron2MetallicTexture |-> "Resources",
     rustedIron2RoughnessTexture |-> "Resources",
     cameraBuffers |-> "Resources", objectBuffer |-> "Resources",
     pointLightBuffer |-> "Resources"]

Section(main) == IF main = "VK" THEN SectionVK ELSE SectionDX

Range(seq) == {seq[i] : i \in DOMAIN seq}

Pos(seq, o) == CHOOSE i \in DOMAIN seq : seq[i] = o

Destroyed(o) == o \in Range(tdDestroyed)

\* a was destroyed, and b was not destroyed before it
DestroyedFirst(a, b) ==
    /\ Destroyed(a)
    /\ Destroyed(b) => Pos(tdDestroyed, a) < Pos(tdDestroyed, b)

CreatedBefore(a, b) == Pos(tdCreated, a) < Pos(tdCreated, b)

Named(name) == {o \in Range(tdCreated) : o.name = name}

\* C22: in teardown an object is never destroyed after an object it depends
\* on: when an object is destroyed every object created from it was destroyed
\* earlier; every object created from the device goes before the device, the
\* device before the surface, the surface before the instance (DirectX12: the
\* device before the factory); every object created is destroyed once.
C22_DependencyOrder ==
    /\ \A a, b \in Range(tdCreated) :
          (b.name \in Depends(tdMain)[a.name] /\ Destroyed(b)) => DestroyedFirst(a, b)
    /\ \A d \in Named("device"), s \in Named("windowSurface") \cup Named("factory") :
          Destroyed(s) => DestroyedFirst(d, s)
    /\ \A s \in Named("windowSurface"), i \in Named("instance") :
          Destroyed(i) => DestroyedFirst(s, i)
    /\ \A i, j \in DOMAIN tdDestroyed : i # j => tdDestroyed[i] # tdDestroyed[j]
    /\ Range(tdDestroyed) \subseteq Range(tdCreated)
    /\ tdPc = "done" => Range(tdDestroyed) = Range(tdCreated)

C22_Witness ==
    /\ tdMain = "VK"
    /\ tdPc = "done"
    /\ \E d \in Named("device"), v \in Named("swapchainImageViews") :
          DestroyedFirst(v, d)
    /\ Len(tdDestroyed) = Len(CreationVK)

\* C23 (as claimed): teardown is the strict reverse of creation: of two
\* objects the one created first is destroyed last, also inside a loop or group.
C23_StrictReverse ==
    \A a, b \in Range(tdCreated) :
        (a # b /\ CreatedBefore(a, b) /\ Destroyed(a)) => DestroyedFirst(b, a)

\* C23 (amended): the sections of main() are torn down in the reverse order
\* of their creation: of two objects of different sections the one created
\* first is destroyed last.
C23_SectionReverse ==
    \A a, b \in Range(tdCreated) :
        (Section(tdMain)[a.name] # Section(tdMain)[b.name]
            /\ CreatedBefore(a, b) /\ Destroyed(a)) => DestroyedFirst(b, a)

C23_Witness ==
    /\ tdMain = "DX"
    /\ tdPc = "done"
    /\ \E a \in Named("sceneRTViewHeap"), b \in Named("litPipelineState"),
          c \in Named("srvHeap") :
          DestroyedFirst(b, a) /\ DestroyedFirst(a, c)

====
